---- MODULE Spec2Model ----
(***************************************************************************)
(* The concurrent data-access layer of Go_Microservice:                    *)
(*   - PostStore (internal/repo/posts.go): optimistic-locked posts,        *)
(*   - the PATCH handler that loads a post and then updates it,            *)
(*   - RedisFixedWindowRateLimiter.Allow,                                   *)
(*   - the cache-aside read path application.getUser,                       *)
(*   - the feed query PostStore.GetUserFeed.                                *)
(* Every SQL statement and every Redis command is one atomic step; a Go    *)
(* function that issues several of them is several steps, and other        *)
(* requests may run between them.                                           *)
(***************************************************************************)
EXTENDS Integers, Sequences, FiniteSets, TLC

(* ------------------------------ bounds -------------------------------- *)
\* identifiers the posts serial hands out
MaxPosts == 1
\* posts the store specification is explored with
MaxStorePosts == 2
\* posts the feed is explored with
MaxFeedPosts == 2
\* the clock of the feed runs from 0 to MaxFeedTime
MaxFeedTime == 1
\* comments the feed is explored with
MaxComments == 2
\* versions are explored up to this value
MaxVersion == 2
\* the clock runs from 0 to MaxTime
MaxTime == 3
\* the limiter is configured with a limit in 1 .. MaxLimit and a window in 1 .. MaxWindow
MaxLimit == 2
MaxWindow == 2
\* Allow calls explored per life of the limiter's key
MaxCalls == 4
\* the transactions a run of withTx commits
MaxCommits == 2
\* the length of the values the environment variable is set to
MaxEnvLen == 2
\* requests getUserFeedHandler is explored with
MaxFeedRequests == 1

\* the version column's default, given to a row by INSERT
InitialVersion == 1

Reqs == {"r1", "r2", "r3"}
\* the ids the history of the posts is kept for
PostIds == 1 .. (MaxPosts + MaxFeedPosts)
Versions == 0 .. (MaxVersion + 1)

VARIABLES
    now,        \* the clock that NOW() and the Redis expiry read
    posts,      \* the posts table: id -> row, for the ids that have a row
    nextId,     \* the posts id serial
    rq,         \* per request: where it is, the Post value it holds, its result
    created,    \* history: id -> the version the row was inserted with
    updOk,      \* history: id -> base version -> number of Updates that succeeded
    updTried,   \* history: id -> base version -> an Update reached the UPDATE statement
    limit,      \* RedisFixedWindowRateLimiter.limit
    window,     \* RedisFixedWindowRateLimiter.window
    rlCount,    \* the value of the key rate_limit:<ip>; 0 when the key does not exist
    rlExp,      \* the time the key expires at; NoExpiry when it has no expiry
    cl,         \* per caller of Allow: where it is, what it read, what it returned
    grants,     \* history: Allow calls of the key's current life that returned allowed=true
    winCalls,   \* history: Allow calls counted into the key's current life
    winFirst,   \* history: when the first INCR of the key's current life ran
    winRet,     \* history: when the call that created the latest key returned
    redisEnabled, \* app.config.redisConfig.enabled
    users,      \* the users table: id -> row
    cache,      \* Redis keys user-<id>: id -> [data, exp], for the keys that exist
    gu,         \* per caller of getUser: where it is, what it holds, what it returned
    userWrites, \* history: user id -> number of committed writes to the row and the time of the last
    comments,   \* the comments table, in order of insertion: the id is the index
    followers,  \* the followers table: rows [user_id, follower_id]
    feed,       \* the last feed query: who asked, with what, and the rows returned
    tx,         \* per caller of withTx: where it is, what failed, what it returned
    txCommitted, \* the transactions of withTx the database has committed
    reqDone,    \* per caller of Allow: the context of the request it serves is done
    own,        \* per request through checkPostOwnership: who asked for which post, the outcome
    environ,    \* the variable ADDR of the process environment: whether it is set, its value
    port,       \* the last call of GetPort: what it read, its fallback, what it returned
    fh,         \* the last request through getUserFeedHandler: its query, what was answered
    mail,       \* the call of SendGridMailer.Send: where it is, the replies it got, its result
    srv         \* runWithGracefulShutdown and handleGracefulShutdown: where each is, the server

postVars == <<posts, nextId, rq, created, updOk, updTried>>
rlVars == <<limit, window, rlCount, rlExp, cl, grants, winCalls, winFirst, winRet>>
cacheVars == <<redisEnabled, users, cache, gu, userWrites>>
feedVars == <<comments, followers, feed>>
svcVars == <<fh, mail, srv>>
callVars == <<tx, txCommitted, reqDone, own, environ, port, svcVars>>
vars == <<now, postVars, rlVars, cacheVars, feedVars, callVars>>

(* ------------------------------ posts --------------------------------- *)
\* Post{}: the zero value of the Go struct
\* a Go string is the sequence of its characters
EmptyStr == <<>>
ZeroPost ==
    [ID |-> 0, Title |-> EmptyStr, Content |-> EmptyStr, Tags |-> {}, UserID |-> 0,
     CreatedAt |-> 0, UpdatedAt |-> 0, Version |-> 0]

IdleReq ==
    [pc |-> "idle", op |-> "none", id |-> 0, post |-> ZeroPost, base |-> 0, err |-> "nil",
     detail |-> EmptyStr, why |-> "none", status |-> 0]

\* (*Post).Validate
ValidateNoUserID(p) ==
    IF p.Title = EmptyStr THEN "ErrInvalidPostData"
    ELSE IF p.Content = EmptyStr THEN "ErrInvalidPostData"
    ELSE "nil"
Validate(p) ==
    IF p.Title = EmptyStr THEN "ErrInvalidPostData"
    ELSE IF p.Content = EmptyStr THEN "ErrInvalidPostData"
    ELSE IF p.UserID <= 0 THEN "ErrInvalidPostData"
    ELSE "nil"

\* INSERT INTO posts ... RETURNING id, created_at, updated_at
InsertedRow(p) ==
    [title |-> p.Title, content |-> p.Content, tags |-> p.Tags, user_id |-> p.UserID,
     created_at |-> now, updated_at |-> now, version |-> InitialVersion]

\* the row of the table as GetByID scans it into a Post
ScanPostNoVersion(id) ==
    [ID |-> id, Title |-> posts[id].title, Content |-> posts[id].content,
     Tags |-> posts[id].tags, UserID |-> posts[id].user_id,
     CreatedAt |-> posts[id].created_at, UpdatedAt |-> posts[id].updated_at,
     Version |-> 0]
ScanPost(id) ==
    [ID |-> id, Title |-> posts[id].title, Content |-> posts[id].content,
     Tags |-> posts[id].tags, UserID |-> posts[id].user_id,
     CreatedAt |-> posts[id].created_at, UpdatedAt |-> posts[id].updated_at,
     Version |-> posts[id].version]

\* UPDATE ... WHERE id = $4 AND version = $5
UpdateWhereAnyVersion(p) == p.ID \in DOMAIN posts
UpdateWhere(p) == p.ID \in DOMAIN posts /\ posts[p.ID].version = p.Version

\* SET ... version = version + 1
BumpVersionNot(v) == v
BumpVersion(v) == v + 1

\* SET title = $1, content = $2, tags = $3, updated_at = NOW(), version = version + 1
UpdatedRow(p) ==
    [posts[p.ID] EXCEPT !.title = p.Title, !.content = p.Content, !.tags = p.Tags,
                        !.updated_at = now, !.version = BumpVersion(@)]

\* PostStore.Update: the error it returns
UpdateErrTellsConflict(p) ==
    IF Validate(p) # "nil" THEN "ErrInvalidPostData"
    ELSE IF p.ID <= 0 THEN "ErrInvalidPostData"
    ELSE IF p.ID \notin DOMAIN posts THEN "ErrNotFound"
    ELSE IF posts[p.ID].version # p.Version THEN "ErrVersionConflict"
    ELSE "nil"
UpdateErr(p) ==
    IF Validate(p) # "nil" THEN "ErrInvalidPostData"
    ELSE IF p.ID <= 0 THEN "ErrInvalidPostData"
    ELSE IF ~UpdateWhere(p) THEN "ErrNotFound"
    ELSE "nil"

\* RETURNING version ... .Scan(&post.Version): the Version the caller's Post holds after
\* the statement; ok is whether a row came back, and with no row Scan stores nothing
ScanVersionZeroed(p, ok) == IF ok THEN BumpVersion(posts[p.ID].version) ELSE 0
ScanVersion(p, ok) == IF ok THEN BumpVersion(posts[p.ID].version) ELSE p.Version

\* whether PostStore.Update gets as far as the UPDATE statement
ReachesUpdate(p) == Validate(p) = "nil" /\ p.ID > 0

\* the values the requests carry: <<title, content, user id, tags>> of a Create,
\* <<title, content, tags>> of a PATCH payload
\* a nil pointer or slice of the payload; Some(x) is a field that is present
Absent == {}
Some(x) == {x}
TitleGo == <<"G", "o", "!">>
TitleNew == <<"n", "e", "w">>
SomeText == <<"t", "x", "t">>
TagGo == <<"g", "o">>
TagDb == <<"d", "b">>
CreateInputs == {<<TitleGo, SomeText, 1, {}>>, <<EmptyStr, SomeText, 1, {}>>, <<TitleGo, SomeText, 4, {}>>}
Patches == {<<Some(TitleNew), Absent, Absent>>, <<Absent, Some(EmptyStr), Some({TagGo})>>}

\* what the store answers to the INSERT: "ok", a pq.Error code, or another failure;
\* posts.user_id references users(id)
PqDetail == <<"k", "e", "y">>
\* another text a driver error may carry
PqOtherDetail == <<"d", "u", "p">>
StoreFaults == {"23505", "23503", "23514", "deadline", "norows", "other"}
InsertReply(uid, fault) ==
    IF fault # "none" THEN fault ELSE IF uid \notin DOMAIN users THEN "23503" ELSE "ok"

\* PostStore.Create: the error it returns for each failure of the INSERT; text is
\* what the driver's error says (pqErr.Detail, or the message of the wrapped error)
CreateErrUnclassified(reply, text) ==
    IF reply = "23505" THEN [err |-> "ErrPostExists", detail |-> text]
    ELSE [err |-> "failed to Create post", detail |-> text]
CreateErr(reply, text) ==
    IF reply = "23505" THEN [err |-> "ErrPostExists", detail |-> text]
    ELSE IF reply = "23503" THEN [err |-> "foreign key constraint violation", detail |-> text]
    ELSE IF reply = "23514" THEN [err |-> "check constraint violation", detail |-> text]
    ELSE IF reply = "deadline" THEN [err |-> "Create operation timed out", detail |-> text]
    ELSE IF reply = "norows" THEN [err |-> "no rows returned from insert", detail |-> text]
    ELSE [err |-> "failed to Create post", detail |-> text]

\* whether the failed INSERT took a value of the id serial: the constraints are
\* checked on the row, after its defaults are computed
TakesId(reply) == reply \in {"23505", "23503", "23514"}

\* PostStore.Create, called with a Post value
Create(r, title, content, uid, tags, fault, text) ==
    LET p == [ZeroPost EXCEPT !.Title = title, !.Content = content, !.UserID = uid, !.Tags = tags]
        bad == Validate(p) # "nil"
        reply == InsertReply(uid, fault)
        call == [IdleReq EXCEPT !.pc = "done", !.op = "create", !.post = p]
    IN  /\ rq[r].pc = "idle"
        /\ IF bad
           THEN /\ rq' = [rq EXCEPT ![r] = [call EXCEPT !.err = "ErrInvalidPostData"]]
                /\ UNCHANGED <<posts, nextId, created>>
           ELSE IF reply # "ok"
           THEN /\ rq' = [rq EXCEPT ![r] = [call EXCEPT !.err = CreateErr(reply, text).err,
                                                        !.detail = CreateErr(reply, text).detail,
                                                        !.why = reply]]
                /\ nextId' = IF TakesId(reply) THEN nextId + 1 ELSE nextId
                /\ UNCHANGED <<posts, created>>
           ELSE /\ posts' = [i \in DOMAIN posts \cup {nextId} |->
                                IF i = nextId THEN InsertedRow(p) ELSE posts[i]]
                /\ created' = [created EXCEPT ![nextId] = InitialVersion]
                /\ nextId' = nextId + 1
                /\ rq' = [rq EXCEPT ![r] = [call EXCEPT !.id = nextId,
                              !.post = [p EXCEPT !.ID = nextId, !.CreatedAt = now, !.UpdatedAt = now]]]
        /\ UNCHANGED <<now, callVars, updOk, updTried, rlVars, cacheVars, feedVars>>

\* PostStore.Create, called with nil
CreateNil(r) ==
    /\ rq[r].pc = "idle"
    /\ rq' = [rq EXCEPT ![r] = [IdleReq EXCEPT !.pc = "done", !.op = "create nil",
                                               !.err = "ErrInvalidPostData"]]
    /\ UNCHANGED <<now, callVars, posts, nextId, created, updOk, updTried, rlVars, cacheVars, feedVars>>

\* a Create of the posts specification, which explores MaxPosts ids
CreatePost(r, in) == nextId <= MaxPosts /\ Create(r, in[1], in[2], in[3], in[4], "none", PqDetail)

\* createPostHandler of cmd/api/posts.go: the payload has no user id, UserID is 1
PostPayloads == {<<TitleGo, SomeText, {}>>, <<EmptyStr, SomeText, {TagGo}>>}
CreatePostHandler(r, payload, fault, text) ==
    nextId <= MaxStorePosts /\ Create(r, payload[1], payload[2], 1, payload[3], fault, text)

\* createPostHandler of cmd/api/posts.go, what it writes for the result of Create:
\* writeJSON(w, 201, post), or writeJSONError(w, 500, err.Error())
NoError == <<>>
CreatePostResponse(q) ==
    IF q.err = "nil"
    THEN [status |-> 201, error |-> NoError, data |-> q.post]
    ELSE [status |-> 500, error |-> <<q.err, q.detail>>, data |-> ZeroPost]

\* postsContextMiddleware: GetByID(id) puts the post into the request's context
Load(r, id) ==
    /\ rq[r].pc = "idle"
    /\ IF id <= 0
       THEN rq' = [rq EXCEPT ![r] = [IdleReq EXCEPT !.pc = "done", !.op = "load", !.id = id,
                                                   !.err = "ErrInvalidPostData", !.status = 500]]
       ELSE IF id \notin DOMAIN posts
       THEN rq' = [rq EXCEPT ![r] = [IdleReq EXCEPT !.pc = "done", !.op = "load", !.id = id,
                                                   !.err = "ErrNotFound", !.status = 404]]
       ELSE rq' = [rq EXCEPT ![r] = [IdleReq EXCEPT !.pc = "loaded", !.op = "load", !.id = id,
                                                   !.post = ScanPost(id), !.base = posts[id].version]]
    /\ UNCHANGED <<now, callVars, posts, nextId, created, updOk, updTried, rlVars, cacheVars, feedVars>>

\* updatePostHandler's payload: a field that is absent leaves the post's value
Patched(p, title, content, tags) ==
    [p EXCEPT !.Title = IF title = Absent THEN @ ELSE CHOOSE x \in title : TRUE,
              !.Content = IF content = Absent THEN @ ELSE CHOOSE x \in content : TRUE,
              !.Tags = IF tags = Absent THEN @ ELSE CHOOSE x \in tags : TRUE]

\* updatePostHandler: apply the payload to the loaded post, then PostStore.Update
UpdatePost(r, title, content, tags) ==
    LET p == Patched(rq[r].post, title, content, tags)
        err == UpdateErr(p)
        id == p.ID
        v == p.Version
    IN  /\ rq[r].pc = "loaded"
        /\ id \in DOMAIN posts => posts[id].version <= MaxVersion
        /\ IF err = "nil"
           THEN /\ posts' = [posts EXCEPT ![id] = UpdatedRow(p)]
                /\ rq' = [rq EXCEPT ![r] = [@ EXCEPT !.pc = "done", !.op = "update",
                              !.post = [p EXCEPT !.Version = ScanVersion(p, TRUE)],
                              !.status = 200]]
                /\ updOk' = [updOk EXCEPT ![id][v] = @ + 1]
           ELSE /\ rq' = [rq EXCEPT ![r] = [@ EXCEPT !.pc = "done", !.op = "update",
                                  !.post = [p EXCEPT !.Version = ScanVersion(p, FALSE)],
                                  !.err = err, !.status = 500,
                                  !.why = IF ~ReachesUpdate(p) THEN "invalid"
                                          ELSE IF id \notin DOMAIN posts THEN "absent" ELSE "version"]]
                /\ UNCHANGED <<posts, updOk>>
        /\ updTried' = IF ReachesUpdate(p) THEN [updTried EXCEPT ![id][v] = TRUE] ELSE updTried
        /\ UNCHANGED <<now, callVars, nextId, created, rlVars, cacheVars, feedVars>>

\* PostStore.Delete: the error it returns
DeleteErrNoRowCount(id) ==
    IF id <= 0 THEN "ErrInvalidPostData" ELSE "nil"
DeleteErr(id) ==
    IF id <= 0 THEN "ErrInvalidPostData"
    ELSE IF id \notin DOMAIN posts THEN "ErrNotFound"
    ELSE "nil"

\* PostStore.Delete
Delete(r, id) ==
    /\ rq[r].pc = "idle"
    /\ rq' = [rq EXCEPT ![r] = [IdleReq EXCEPT !.pc = "done", !.op = "delete", !.id = id,
                                               !.err = DeleteErr(id)]]
    /\ posts' = IF id > 0 /\ id \in DOMAIN posts
                THEN [i \in DOMAIN posts \ {id} |-> posts[i]]
                ELSE posts
    /\ UNCHANGED <<now, callVars, nextId, created, updOk, updTried, rlVars, cacheVars, feedVars>>

\* the response is written and the request's goroutine ends
Finish(r) ==
    /\ rq[r].pc = "done"
    /\ rq' = [rq EXCEPT ![r] = IdleReq]
    /\ UNCHANGED <<now, callVars, posts, nextId, created, updOk, updTried, rlVars, cacheVars, feedVars>>

(* --------------------------- rate limiter ------------------------------ *)
Callers == {"c1", "c2"}
NoExpiry == -1
\* history: no such time yet
NoTime == 0 - 1
IdleCall ==
    [pc |-> "idle", allowed |-> FALSE, retry |-> 0, err |-> "none", joined |-> FALSE,
     k |-> 0, late |-> FALSE]

\* err == redis.Nil || count < rl.limit
BelowLimitOrEqual(isNil, count) == isNil \/ count <= limit
BelowLimit(isNil, count) == isNil \/ count < limit

\* if newCount == 1
IsNewKey(newCount) == newCount = 1

\* rl.client.Expire(ctx, key, rl.window): the time the key then expires at
ExpireAtLater(t) == t + window + 1
ExpireAt(t) == t + window

\* rl.client.TTL(ctx, key): -2 for no key, -1 for a key without expiry
KeyTTL == IF rlCount = 0 THEN -2 ELSE IF rlExp = NoExpiry THEN -1 ELSE rlExp - now

\* return true, 0: what Allow returns when Get or Incr fails
FailClosed == [allowed |-> FALSE, retry |-> window]
FailOpen == [allowed |-> TRUE, retry |-> 0]

\* Allow, first command: count, err := rl.client.Get(ctx, key).Int()
AllowGet(c, fail) ==
    /\ cl[c].pc = "idle"
    /\ winCalls < MaxCalls
    /\ IF fail
       THEN /\ cl' = [cl EXCEPT ![c] = [IdleCall EXCEPT !.pc = "done", !.err = "get",
                          !.allowed = FailOpen.allowed, !.retry = FailOpen.retry]]
            /\ UNCHANGED winCalls
       ELSE IF BelowLimit(rlCount = 0, rlCount)
       THEN /\ cl' = [cl EXCEPT ![c] = [IdleCall EXCEPT !.pc = "incr",
                          !.late = (winRet # NoTime /\ now >= winRet + window)]]
            /\ UNCHANGED winCalls
       ELSE /\ cl' = [cl EXCEPT ![c] = [IdleCall EXCEPT !.pc = "ttl", !.k = winCalls + 1,
                          !.late = (winRet # NoTime /\ now >= winRet + window)]]
            /\ winCalls' = winCalls + 1
    /\ UNCHANGED <<now, callVars, postVars, cacheVars, feedVars, limit, window, rlCount, rlExp, grants, winFirst, winRet>>

\* Allow, second command: newCount, err := rl.client.Incr(ctx, key).Result()
AllowIncr(c, fail) ==
    /\ cl[c].pc = "incr"
    /\ IF fail
       THEN /\ cl' = [cl EXCEPT ![c] = [@ EXCEPT !.pc = "done", !.err = "incr",
                          !.allowed = FailOpen.allowed, !.retry = FailOpen.retry]]
            /\ UNCHANGED <<rlCount, winCalls, winFirst>>
       ELSE /\ rlCount' = rlCount + 1
            /\ winCalls' = winCalls + 1
            /\ winFirst' = IF rlCount = 0 THEN now ELSE winFirst
            /\ cl' = [cl EXCEPT ![c] = [@ EXCEPT !.pc = IF IsNewKey(rlCount + 1) THEN "expire" ELSE "done",
                                                  !.allowed = TRUE, !.retry = 0, !.joined = TRUE,
                                                  !.k = winCalls + 1]]
    /\ UNCHANGED <<now, callVars, postVars, cacheVars, feedVars, limit, window, rlExp, grants, winRet>>

\* Allow, third command: rl.client.Expire(ctx, key, rl.window); its result is dropped
AllowExpire(c, fail) ==
    /\ cl[c].pc = "expire"
    /\ rlExp' = IF fail \/ rlCount = 0 THEN rlExp ELSE ExpireAt(now)
    /\ cl' = [cl EXCEPT ![c] = [@ EXCEPT !.pc = "done", !.err = IF fail THEN "expire" ELSE "none"]]
    /\ UNCHANGED <<now, callVars, postVars, cacheVars, feedVars, limit, window, rlCount, grants, winCalls, winFirst, winRet>>

\* the key after the denied branch's one command, TTL, which reads and writes nothing
KeyAfterTTLCounted == [count |-> rlCount + 1, exp |-> rlExp]
KeyAfterTTL == [count |-> rlCount, exp |-> rlExp]

\* Allow, the denied branch: ttl, err := rl.client.TTL(ctx, key).Result()
AllowTTL(c, fail) ==
    /\ cl[c].pc = "ttl"
    /\ cl' = [cl EXCEPT ![c] = [@ EXCEPT !.pc = "done", !.allowed = FALSE,
                                          !.err = IF fail THEN "ttl" ELSE "none",
                                          !.retry = IF fail THEN window ELSE KeyTTL]]
    /\ rlCount' = KeyAfterTTL.count
    /\ rlExp' = KeyAfterTTL.exp
    /\ UNCHANGED <<now, callVars, postVars, cacheVars, feedVars, limit, window, grants, winCalls, winFirst, winRet>>

\* Allow returns to its caller
AllowReturn(c) ==
    /\ cl[c].pc = "done"
    /\ cl' = [cl EXCEPT ![c] = IdleCall]
    /\ grants' = IF cl[c].allowed /\ cl[c].joined THEN grants + 1 ELSE grants
    /\ winRet' = IF cl[c].joined /\ cl[c].k = 1 THEN now ELSE winRet
    /\ UNCHANGED <<now, callVars, postVars, cacheVars, feedVars, limit, window, rlCount, rlExp, winCalls, winFirst>>

\* the request a call of Allow serves is cancelled or its deadline passes while the
\* call runs; Allow works under ctx := context.Background() and is not told
CancelRequest(c) ==
    /\ cl[c].pc # "idle"
    /\ ~reqDone[c]
    /\ reqDone' = [reqDone EXCEPT ![c] = TRUE]
    /\ UNCHANGED <<now, postVars, rlVars, cacheVars, feedVars, tx, txCommitted, own, environ, port, svcVars>>

\* the server lets go of a request whose context is done, once Allow has returned
EndRequest(c) ==
    /\ cl[c].pc = "idle"
    /\ reqDone[c]
    /\ reqDone' = [reqDone EXCEPT ![c] = FALSE]
    /\ UNCHANGED <<now, postVars, rlVars, cacheVars, feedVars, tx, txCommitted, own, environ, port, svcVars>>

\* a request arrives and Allow begins under it
BeginRequest(c, fail) == ~reqDone[c] /\ AllowGet(c, fail)

(* ------------------------- cache-aside read ---------------------------- *)
Getters == {"g1", "g2"}
\* the ids getUser is asked for; 4 has no row
GetUserArgs == {1, 2, 4}
\* NewUserStore(rdb, time.Hour): the entry's life, in ticks of the clock
CacheTTL == 2

UserLetter == <<"a", "b", "c">>
NoUser == [ID |-> 0, Username |-> EmptyStr, Password |-> EmptyStr]
IdleGet ==
    [pc |-> "idle", uid |-> 0, user |-> NoUser, isNil |-> TRUE, err |-> "nil",
     missed |-> FALSE, read |-> FALSE, setErr |-> FALSE, reply |-> "none", began |-> NoTime, seen |-> 0]

\* UserStore.GetByID: the row scanned into a User
ScanUser(uid) == [ID |-> uid, Username |-> users[uid].username, Password |-> users[uid].password]

\* json.Marshal(user) if Password had a name in the JSON
MarshalWithPassword(u) == [id |-> u.ID, username |-> u.Username, password |-> u.Password]
\* json.Marshal(user): Password is tagged json:"-"
Marshal(u) == [id |-> u.ID, username |-> u.Username]
\* json.Unmarshal(data, &user)
Unmarshal(d) == [ID |-> d.id, Username |-> d.username, Password |-> EmptyStr]

\* getUserHandler: app.jsonResponse(w, http.StatusOK, user)
UserResponse(u) == [status |-> 200, data |-> Marshal(u)]

\* getUser when the cache is disabled: return app.repo.Users.GetByID(ctx, userID)
GetUserDirect(g, uid, fail) ==
    /\ gu[g].pc = "idle"
    /\ ~redisEnabled
    /\ gu' = [gu EXCEPT ![g] =
                IF fail THEN [IdleGet EXCEPT !.pc = "done", !.uid = uid, !.began = now, !.err = "store error"]
                ELSE IF uid \notin DOMAIN users
                THEN [IdleGet EXCEPT !.pc = "done", !.uid = uid, !.began = now, !.err = "ErrPostNotFound"]
                ELSE [IdleGet EXCEPT !.pc = "done", !.uid = uid, !.began = now, !.user = ScanUser(uid),
                                     !.isNil = FALSE, !.read = TRUE, !.seen = userWrites[uid].n]]
    /\ UNCHANGED <<now, callVars, postVars, rlVars, feedVars, redisEnabled, users, cache, userWrites>>

\* what Redis answers to GET user-<id>: redis.Nil, an error, or the value
RedisGet(uid, fail) ==
    IF fail THEN "err" ELSE IF uid \notin DOMAIN cache THEN "nil" ELSE "val"

\* cache.UserStore.Get: <<user, isNil, err>> for each answer of Redis
GetNilIsError(uid, reply) ==
    IF reply = "val" THEN [user |-> Unmarshal(cache[uid].data), isNil |-> FALSE, err |-> "nil"]
    ELSE [user |-> NoUser, isNil |-> TRUE, err |-> "failed to get user from cache"]
Get(uid, reply) ==
    IF reply = "nil" THEN [user |-> NoUser, isNil |-> TRUE, err |-> "nil"]
    ELSE IF reply = "err" THEN [user |-> NoUser, isNil |-> TRUE, err |-> "failed to get user from cache"]
    ELSE [user |-> Unmarshal(cache[uid].data), isNil |-> FALSE, err |-> "nil"]

\* what getUser does when Users.Get failed: return nil, err
AfterGetErrorFallsThrough(call, res) == [call EXCEPT !.pc = "store", !.missed = TRUE]
AfterGetError(call, res) == [call EXCEPT !.pc = "done", !.err = res.err]

\* AuthTokenMiddleware: user, err := app.getUser(ctx, userID); an error is answered
\* 401, otherwise the next handler runs
NextHandler == 0
AuthTokenMiddleware(res) == IF res.err # "nil" THEN 401 ELSE NextHandler

\* getUser, first call: user, err := app.cacheStorage.Users.Get(ctx, userID)
GetUserCacheGet(g, uid, fail) ==
    LET reply == RedisGet(uid, fail)
        res == Get(uid, reply)
        call == [IdleGet EXCEPT !.uid = uid, !.reply = reply, !.began = now]
    IN  /\ gu[g].pc = "idle"
        /\ redisEnabled
        /\ gu' = [gu EXCEPT ![g] =
                    IF res.err # "nil" THEN AfterGetError(call, res)
                    ELSE IF res.isNil THEN [call EXCEPT !.pc = "store", !.missed = TRUE]
                    ELSE [call EXCEPT !.pc = "done", !.user = res.user, !.isNil = FALSE,
                                      !.seen = cache[uid].seen]]
        /\ UNCHANGED <<now, callVars, postVars, rlVars, feedVars, redisEnabled, users, cache, userWrites>>

\* getUser, on a miss: user, err = app.repo.Users.GetByID(ctx, userID)
GetUserStoreRead(g, fail) ==
    /\ gu[g].pc = "store"
    /\ gu' = [gu EXCEPT ![g] =
                IF fail THEN [gu[g] EXCEPT !.pc = "done", !.err = "store error"]
                ELSE IF gu[g].uid \notin DOMAIN users
                THEN [gu[g] EXCEPT !.pc = "done", !.err = "ErrPostNotFound"]
                ELSE [gu[g] EXCEPT !.pc = "set", !.user = ScanUser(gu[g].uid), !.isNil = FALSE,
                                   !.read = TRUE, !.seen = userWrites[gu[g].uid].n]]
    /\ UNCHANGED <<now, callVars, postVars, rlVars, feedVars, redisEnabled, users, cache, userWrites>>

\* what getUser returns when Users.Set failed: return nil, err
AfterSetErrorIgnored(r) == [r EXCEPT !.pc = "done", !.setErr = TRUE]
AfterSetError(r) ==
    [r EXCEPT !.pc = "done", !.user = NoUser, !.isNil = TRUE,
              !.err = "failed to set user in cache", !.setErr = TRUE]

\* s.rdb.Set(ctx, cacheKey, data, ttl): the keys of Redis after the SET
RedisSetIfAbsent(uid, entry) ==
    [i \in DOMAIN cache \cup {uid} |-> IF i \in DOMAIN cache THEN cache[i] ELSE entry]
RedisSet(uid, entry) ==
    [i \in DOMAIN cache \cup {uid} |-> IF i = uid THEN entry ELSE cache[i]]

\* getUser, after the store read: app.cacheStorage.Users.Set(ctx, user)
GetUserCacheSet(g, fail) ==
    /\ gu[g].pc = "set"
    /\ IF fail
       THEN /\ gu' = [gu EXCEPT ![g] = AfterSetError(gu[g])]
            /\ UNCHANGED cache
       ELSE /\ cache' = RedisSet(gu[g].uid, [data |-> Marshal(gu[g].user), exp |-> now + CacheTTL,
                                                seen |-> gu[g].seen, setGen |-> userWrites[gu[g].uid].n])
            /\ gu' = [gu EXCEPT ![g] = [@ EXCEPT !.pc = "done"]]
    /\ UNCHANGED <<now, callVars, postVars, rlVars, feedVars, redisEnabled, users, userWrites>>

\* the invitation tokens presented to activateUserHandler: the user each belongs to;
\* 0 is a token no invitation has
ActivateArgs == {0, 1}

\* activateUserHandler: Users.Activate(ctx, token) commits the write to the user's
\* row and deletes the invitation; the handler then answers 204 and touches no cache
ActivateUser(uid, fail) ==
    /\ IF ~fail /\ uid \in DOMAIN users /\ ~users[uid].is_active
       THEN /\ users' = [users EXCEPT ![uid].is_active = TRUE]
            /\ userWrites' = [userWrites EXCEPT ![uid] = [n |-> @.n + 1, at |-> now]]
       ELSE UNCHANGED <<users, userWrites>>
    /\ UNCHANGED <<now, callVars, postVars, rlVars, feedVars, redisEnabled, cache, gu>>

\* getUser returns to its caller
GetUserReturn(g) ==
    /\ gu[g].pc = "done"
    /\ gu' = [gu EXCEPT ![g] = IdleGet]
    /\ UNCHANGED <<now, callVars, postVars, rlVars, feedVars, redisEnabled, users, cache, userWrites>>

(* ------------------------------- feed ---------------------------------- *)
\* PaginatedFeedQuery as getUserFeedHandler builds it before Parse
DefaultLimit == 20
NoRows == <<>>
NoFeed == [user |-> 0, fq |-> [Limit |-> 0, Offset |-> 0, Sort |-> "", Tags |-> {}, Search |-> EmptyStr],
           rows |-> NoRows]

\* CommentRepo.Create: INSERT INTO comments (post_id, user_id, content)
CreateComment(pid, uid) ==
    /\ Len(comments) < MaxComments
    /\ comments' = IF pid \in DOMAIN posts /\ uid \in DOMAIN users
                   THEN Append(comments, [post_id |-> pid, user_id |-> uid])
                   ELSE comments
    /\ UNCHANGED <<now, callVars, postVars, rlVars, cacheVars, followers, feed>>

\* FollowersRepository.Follow(ctx, userID, followerID): the pair is unique
Follow(userID, followerID) ==
    /\ followers' = followers \cup {[user_id |-> userID, follower_id |-> followerID]}
    /\ UNCHANGED <<now, callVars, postVars, rlVars, cacheVars, comments, feed>>

\* FollowersRepository.Unfollow(ctx, userID, followerID)
Unfollow(userID, followerID) ==
    /\ followers' = followers \ {[user_id |-> userID, follower_id |-> followerID]}
    /\ UNCHANGED <<now, callVars, postVars, rlVars, cacheVars, comments, feed>>

\* ILIKE compares without case; in a LIKE pattern _ stands for any one character
Lower(ch) == IF ch = "G" THEN "g" ELSE ch
LikeChar(pc, tc) == pc = "_" \/ Lower(pc) = Lower(tc)
\* text ILIKE '%' || pat || '%'
ILike(text, pat) ==
    \E i \in 0 .. (Len(text) - Len(pat)) : \A j \in 1 .. Len(pat) : LikeChar(pat[j], text[i + j])

\* (p.title ILIKE '%' || $4 || '%' OR p.content ILIKE '%' || $4 || '%')
SearchMatches(row, search) == ILike(row.title, search) \/ ILike(row.content, search)

\* strings.Split(tagsStr, ","): the pieces between the commas
RECURSIVE Split(_)
Split(s) ==
    IF \A i \in DOMAIN s : s[i] # ","
    THEN <<s>>
    ELSE LET k == CHOOSE i \in DOMAIN s : s[i] = "," /\ \A j \in 1 .. i - 1 : s[j] # ","
         IN  <<SubSeq(s, 1, k - 1)>> \o Split(SubSeq(s, k + 1, Len(s)))

\* strings.TrimSpace(tag)
RECURSIVE TrimSpace(_)
TrimSpace(s) ==
    IF s = EmptyStr THEN s
    ELSE IF Head(s) = " " THEN TrimSpace(Tail(s))
    ELSE IF s[Len(s)] = " " THEN TrimSpace(SubSeq(s, 1, Len(s) - 1))
    ELSE s

\* PaginatedFeedQuery.Parse, the tags parameter: the elements of fq.Tags, which is
\* []string{} when the parameter is absent or empty
ParseTags(tagsStr) ==
    IF tagsStr # EmptyStr
    THEN {TrimSpace(Split(tagsStr)[i]) : i \in DOMAIN Split(tagsStr)}
    ELSE {}

\* (p.tags @> $5 OR $5 = '{}'): the overlap in place of the containment
TagsMatchAny(rowTags, tags) == tags \cap rowTags # {} \/ tags = {}
\* (p.tags @> $5 OR $5 = '{}')
TagsMatch(rowTags, tags) == tags \subseteq rowTags \/ tags = {}

\* JOIN followers f ON f.follower_id = p.user_id OR p.user_id = $1 WHERE f.user_id = $1:
\* the rows of followers that post id is joined with
FollowRows(id, u) ==
    {f \in followers : (f.follower_id = posts[id].user_id \/ posts[id].user_id = u) /\ f.user_id = u}

\* LEFT JOIN comments c ON c.post_id = p.id: the comment ids, or the one NULL
NullComment == 0
CommentRows(id) ==
    LET cs == {c \in 1 .. Len(comments) : comments[c].post_id = id}
    IN  IF cs = {} THEN {NullComment} ELSE cs

\* the joined rows of post id that pass WHERE
JoinedRows(id, u, fq) ==
    IF SearchMatches(posts[id], fq.Search) /\ TagsMatch(posts[id].tags, fq.Tags)
    THEN CommentRows(id) \X FollowRows(id, u)
    ELSE {}

\* COUNT(c.id) over the group of post id
CommentsCount(id, u, fq) == Cardinality({jr \in JoinedRows(id, u, fq) : jr[1] # NullComment})

\* GROUP BY p.id: the posts with at least one joined row
FeedPosts(u, fq) == {id \in DOMAIN posts : JoinedRows(id, u, fq) # {}}

\* ORDER BY p.created_at asc | desc: the orders the store may return the set in
InOrder(a, b, sort) == IF sort = "asc" THEN posts[a].created_at <= posts[b].created_at
                       ELSE posts[a].created_at >= posts[b].created_at
Orders(S, sort) ==
    {o \in [1 .. Cardinality(S) -> S] :
        /\ \A i, j \in 1 .. Cardinality(S) : i # j => o[i] # o[j]
        /\ \A i, j \in 1 .. Cardinality(S) : i < j => InOrder(o[i], o[j], sort)}

\* LIMIT $2 alone: the first lim rows
PageNoOffset(o, lim, off) == SubSeq(o, 1, IF lim < Len(o) THEN lim ELSE Len(o))
\* LIMIT $2 OFFSET $3
Page(o, lim, off) ==
    IF off >= Len(o) THEN <<>>
    ELSE SubSeq(o, off + 1, IF off + lim < Len(o) THEN off + lim ELSE Len(o))

\* rows.Scan into PostWithMetadata
FeedRow(id, u, fq) ==
    [ID |-> id, UserID |-> posts[id].user_id, Tags |-> posts[id].tags,
     CreatedAt |-> posts[id].created_at, CommentsCount |-> CommentsCount(id, u, fq)]

\* PostStore.GetUserFeed: what it returns when the store gives the rows in order o
FeedResult(u, fq, o) ==
    [user |-> u, fq |-> fq,
     rows |-> [i \in DOMAIN Page(o, fq.Limit, fq.Offset) |->
                  FeedRow(Page(o, fq.Limit, fq.Offset)[i], u, fq)]]

\* PostStore.GetUserFeed
GetUserFeed(u, fq) ==
    /\ \E o \in Orders(FeedPosts(u, fq), fq.Sort) : feed' = FeedResult(u, fq, o)
    /\ UNCHANGED <<now, callVars, postVars, rlVars, cacheVars, comments, followers>>

(* ---------------------------- feed handler ------------------------------ *)
\* strconv.Atoi: an optional sign, then decimal digits and nothing else
Digits == <<"0", "1", "2", "3", "4", "5", "6", "7", "8", "9">>
IsDigit(ch) == \E d \in DOMAIN Digits : Digits[d] = ch
DigitVal(ch) == (CHOOSE d \in DOMAIN Digits : Digits[d] = ch) - 1
RECURSIVE Decimal(_)
Decimal(s) == IF s = EmptyStr THEN 0 ELSE 10 * Decimal(SubSeq(s, 1, Len(s) - 1)) + DigitVal(s[Len(s)])
Atoi(s) ==
    LET signed == s # EmptyStr /\ s[1] \in {"-", "+"}
        body == IF signed THEN Tail(s) ELSE s
    IN  IF body = EmptyStr \/ \E i \in DOMAIN body : ~IsDigit(body[i])
        THEN [err |-> TRUE, val |-> 0]
        ELSE [err |-> FALSE, val |-> IF signed /\ s[1] = "-" THEN 0 - Decimal(body) ELSE Decimal(body)]

\* the validate tags of PaginatedFeedQuery: lte=20, max=5, max=100
LimitMax == 20
TagsMax == 5
SearchMax == 100
\* the user getUserFeedHandler asks the feed of
FeedUser == 156

\* fq as getUserFeedHandler builds it before Parse
DefaultFq == [Limit |-> DefaultLimit, Offset |-> 0, Sort |-> "desc", Tags |-> {}, Search |-> EmptyStr]

\* the parameters of the query string; an empty one is absent (qs.Get gives "")
LongText == [i \in 1 .. SearchMax |-> "a"]
LimitParams == {EmptyStr, <<"0">>, <<"1">>, <<"2", "0">>, <<"2", "1">>, <<"-", "1">>, <<"x">>}
OffsetParams == {EmptyStr, <<"0">>, <<"1">>, <<"-", "1">>, <<"x">>}
SortParams == {"", "asc", "desc", "DESC", "asc; DROP TABLE posts"}
TagsParams == {EmptyStr, TagGo, <<"g", "o", ",", " ", "d", "b">>,
               <<"a", ",", "a", ",", "a", ",", "a", ",", "a">>,
               <<"a", ",", "a", ",", "a", ",", "a", ",", "a", ",", "a">>}
SearchParams == {EmptyStr, TitleGo, LongText, LongText \o <<"a">>, <<" ">> \o LongText \o <<" ">>}
\* the query strings explored: at most two parameters are present
Present(q) ==
    (IF q.limit # EmptyStr THEN 1 ELSE 0) + (IF q.offset # EmptyStr THEN 1 ELSE 0)
    + (IF q.sort # "" THEN 1 ELSE 0) + (IF q.tags # EmptyStr THEN 1 ELSE 0)
    + (IF q.search # EmptyStr THEN 1 ELSE 0)
FeedRequests ==
    {q \in [limit : LimitParams, offset : OffsetParams, sort : SortParams, tags : TagsParams,
            search : SearchParams] : Present(q) <= 2}

\* len(fq.Tags) after Parse
TagCount(tagsStr) == IF tagsStr # EmptyStr THEN Len(Split(tagsStr)) ELSE 0

\* PaginatedFeedQuery.Parse on the default query (since and until are absent)
Parse(q) ==
    LET lim == Atoi(q.limit)
        off == Atoi(q.offset)
    IN  IF q.limit # EmptyStr /\ lim.err
        THEN [err |-> "invalid limit parameter", fq |-> DefaultFq, ntags |-> 0]
        ELSE IF q.offset # EmptyStr /\ off.err
        THEN [err |-> "invalid offset parameter", fq |-> DefaultFq, ntags |-> 0]
        ELSE [err |-> "nil",
              fq |-> [Limit |-> IF q.limit # EmptyStr THEN lim.val ELSE DefaultFq.Limit,
                      Offset |-> IF q.offset # EmptyStr THEN off.val ELSE DefaultFq.Offset,
                      Sort |-> IF q.sort # "" THEN q.sort ELSE DefaultFq.Sort,
                      Tags |-> ParseTags(q.tags),
                      Search |-> IF q.search # EmptyStr THEN TrimSpace(q.search) ELSE DefaultFq.Search],
              ntags |-> TagCount(q.tags)]

\* validate.Struct(fq): gte=1,lte=20 / gte=0 / oneof=asc desc / max=5 / max=100
ValidateFqNoSort(fq, ntags) ==
    /\ fq.Limit >= 1 /\ fq.Limit <= LimitMax
    /\ fq.Offset >= 0
    /\ ntags <= TagsMax
    /\ Len(fq.Search) <= SearchMax
ValidateFq(fq, ntags) ==
    /\ fq.Limit >= 1 /\ fq.Limit <= LimitMax
    /\ fq.Offset >= 0
    /\ fq.Sort \in {"asc", "desc"}
    /\ ntags <= TagsMax
    /\ Len(fq.Search) <= SearchMax

\* no request yet
NoFeedRequest ==
    [status |-> 0, query |-> [limit |-> EmptyStr, offset |-> EmptyStr, sort |-> "", tags |-> EmptyStr,
                              search |-> EmptyStr],
     parsed |-> FALSE, fq |-> DefaultFq, ntags |-> 0, stored |-> FALSE, orderBy |-> "", n |-> 0]

\* getUserFeedHandler: Parse, validate.Struct, GetUserFeed, the response; orderBy is
\* the text GetUserFeed puts into the statement after ORDER BY p.created_at
GetUserFeedHandler(q, fail) ==
    LET res == Parse(q)
        fq == res.fq
        req == [NoFeedRequest EXCEPT !.query = q, !.n = fh.n + 1]
    IN  /\ fh.n < MaxFeedRequests
        /\ IF res.err # "nil"
           THEN /\ fh' = [req EXCEPT !.status = 400]
                /\ UNCHANGED feed
           ELSE IF ~ValidateFq(fq, res.ntags)
           THEN /\ fh' = [req EXCEPT !.status = 400, !.parsed = TRUE, !.fq = fq, !.ntags = res.ntags]
                /\ UNCHANGED feed
           ELSE IF fail
           THEN /\ fh' = [req EXCEPT !.status = 500, !.parsed = TRUE, !.fq = fq, !.ntags = res.ntags,
                                     !.stored = TRUE, !.orderBy = fq.Sort]
                /\ UNCHANGED feed
           ELSE /\ fh' = [req EXCEPT !.status = 200, !.parsed = TRUE, !.fq = fq, !.ntags = res.ntags,
                                     !.stored = TRUE, !.orderBy = fq.Sort]
                /\ \E o \in Orders(FeedPosts(FeedUser, fq), fq.Sort) : feed' = FeedResult(FeedUser, fq, o)
        /\ UNCHANGED <<now, postVars, rlVars, cacheVars, comments, followers,
                       tx, txCommitted, reqDone, own, environ, port, mail, srv>>

\* an empty database
FeedInit ==
    /\ comments = <<>>
    /\ followers = {}
    /\ feed = NoFeed

(* ------------------------------ withTx --------------------------------- *)
TxCallers == {"t1", "t2"}
IdleTx == [pc |-> "idle", fnErr |-> FALSE, fault |-> "none", err |-> "nil", committed |-> FALSE]

\* withTx: tx, err := db.BeginTx(ctx, ...); if err != nil { return err }
WithTxBegin(t, fail) ==
    /\ tx[t].pc = "idle"
    /\ txCommitted < MaxCommits
    /\ tx' = [tx EXCEPT ![t] =
                IF fail THEN [IdleTx EXCEPT !.pc = "done", !.fault = "begin", !.err = "begin failed"]
                ELSE [IdleTx EXCEPT !.pc = "begun"]]
    /\ UNCHANGED <<now, postVars, rlVars, cacheVars, feedVars, txCommitted, reqDone, own, environ, port, svcVars>>

\* withTx: err := fn(tx)
WithTxFn(t, fail) ==
    /\ tx[t].pc = "begun"
    /\ tx' = [tx EXCEPT ![t] = [@ EXCEPT !.pc = "ran", !.fnErr = fail,
                                         !.fault = IF fail THEN "fn" ELSE "none"]]
    /\ UNCHANGED <<now, postVars, rlVars, cacheVars, feedVars, txCommitted, reqDone, own, environ, port, svcVars>>

\* withTx after fn failed: return tx.Rollback()
RollbackReturn(fail) == IF fail THEN "rollback failed" ELSE "nil"
\* withTx after fn succeeded: return tx.Commit()
CommitReturn(fail) == IF fail THEN "commit failed" ELSE "nil"

\* withTx: if err := fn(tx); err != nil { return tx.Rollback() }; return tx.Commit()
WithTxEnd(t, fail) ==
    /\ tx[t].pc = "ran"
    /\ IF tx[t].fnErr
       THEN /\ tx' = [tx EXCEPT ![t] = [@ EXCEPT !.pc = "done", !.err = RollbackReturn(fail)]]
            /\ UNCHANGED txCommitted
       ELSE /\ tx' = [tx EXCEPT ![t] = [@ EXCEPT !.pc = "done", !.err = CommitReturn(fail),
                                                !.fault = IF fail THEN "commit" ELSE "none",
                                                !.committed = ~fail]]
            /\ txCommitted' = IF fail THEN txCommitted ELSE txCommitted + 1
    /\ UNCHANGED <<now, postVars, rlVars, cacheVars, feedVars, reqDone, own, environ, port, svcVars>>

\* withTx has returned to its caller
WithTxReturn(t) ==
    /\ tx[t].pc = "done"
    /\ tx' = [tx EXCEPT ![t] = IdleTx]
    /\ UNCHANGED <<now, postVars, rlVars, cacheVars, feedVars, txCommitted, reqDone, own, environ, port, svcVars>>

(* -------------------------------- env ----------------------------------- *)
\* the values ADDR is set to: the strings of at most MaxEnvLen of these characters
EnvChars == {" ", ":", "8"}
EnvValues == UNION {[1 .. n -> EnvChars] : n \in 0 .. MaxEnvLen}
\* the fallbacks the callers pass: ":8", "8", ""
Fallbacks == {<<":", "8">>, <<"8">>, EmptyStr}
Unset == [set |-> FALSE, val |-> EmptyStr]
NoPort == [called |-> FALSE, env |-> Unset, fallback |-> EmptyStr, out |-> EmptyStr]

\* os.Getenv(key): "" when the variable is not set
Getenv(e) == IF e.set THEN e.val ELSE EmptyStr

\* GetString: the trimmed value when it is not empty, otherwise the fallback
GetString(e, fallback) ==
    LET val == TrimSpace(Getenv(e))
    IN  IF val # EmptyStr THEN val ELSE fallback

\* strings.HasPrefix(val, ":")
HasColonPrefix(val) == Len(val) >= 1 /\ val[1] = ":"

\* GetPort, the binding form of a value: ":" is put before it unless it is empty or
\* starts with ":"
PortAddr(val) == IF val # EmptyStr /\ ~HasColonPrefix(val) THEN <<":">> \o val ELSE val

\* GetPort as it was before: the value of the variable as it is, the fallback when
\* it is not set
GetPortAsIs(e, fallback) == IF e.set THEN e.val ELSE fallback
\* GetPort
GetPort(e, fallback) == PortAddr(GetString(e, fallback))

\* os.Setenv("ADDR", v)
Setenv(v) ==
    /\ environ' = [set |-> TRUE, val |-> v]
    /\ UNCHANGED <<now, postVars, rlVars, cacheVars, feedVars, tx, txCommitted, reqDone, own, port, svcVars>>

\* os.Unsetenv("ADDR")
Unsetenv ==
    /\ environ' = Unset
    /\ UNCHANGED <<now, postVars, rlVars, cacheVars, feedVars, tx, txCommitted, reqDone, own, port, svcVars>>

\* env.GetPort("ADDR", fallback) is called
GetPortCall(fallback) ==
    /\ port' = [called |-> TRUE, env |-> environ, fallback |-> fallback, out |-> GetPort(environ, fallback)]
    /\ UNCHANGED <<now, postVars, rlVars, cacheVars, feedVars, tx, txCommitted, reqDone, own, environ, svcVars>>

(* ------------------------- checkPostOwnership --------------------------- *)
OwnReqs == {"o1", "o2"}
\* the rows of roles: name -> level
RoleLevel == [user |-> 1, moderator |-> 2, admin |-> 3]
\* the role names the routes wrap their handlers with; "editor" has no row
RequiredRoles == {"moderator", "admin", "editor"}
IdleOwn ==
    [pc |-> "idle", userID |-> 0, level |-> 0, owner |-> 0, required |-> "", lookup |-> "none",
     ran |-> FALSE, status |-> 0]

\* RoleRepo.GetByName: the level of the role, or an error when the query fails or
\* finds no row
GetByName(roleName, fail) ==
    IF fail \/ roleName \notin DOMAIN RoleLevel THEN [err |-> TRUE, level |-> 0]
    ELSE [err |-> FALSE, level |-> RoleLevel[roleName]]

\* checkRolePrecedence: user.Role.Level >= role.Level
AboveRole(userLevel, roleLevel) == userLevel > roleLevel
AtLeastRole(userLevel, roleLevel) == userLevel >= roleLevel

\* checkPostOwnership(requiredRole, next) for a request of user (id, level) on a post
\* of owner: next runs, or 500 / 403 is written
CheckPostOwnership(h, id, level, owner, requiredRole, fail) ==
    LET role == GetByName(requiredRole, fail)
        call == [IdleOwn EXCEPT !.pc = "done", !.userID = id, !.level = level, !.owner = owner,
                                !.required = requiredRole]
    IN  /\ own[h].pc = "idle"
        /\ own' = [own EXCEPT ![h] =
                     IF owner = id THEN [call EXCEPT !.ran = TRUE]
                     ELSE IF role.err THEN [call EXCEPT !.lookup = "failed", !.status = 500]
                     ELSE IF ~AtLeastRole(level, role.level) THEN [call EXCEPT !.lookup = "found", !.status = 403]
                     ELSE [call EXCEPT !.lookup = "found", !.ran = TRUE]]
        /\ UNCHANGED <<now, postVars, rlVars, cacheVars, feedVars, tx, txCommitted, reqDone, environ, port, svcVars>>

\* the request is over
OwnershipReturn(h) ==
    /\ own[h].pc = "done"
    /\ own' = [own EXCEPT ![h] = IdleOwn]
    /\ UNCHANGED <<now, postVars, rlVars, cacheVars, feedVars, tx, txCommitted, reqDone, environ, port, svcVars>>

(* ------------------------------- mailer --------------------------------- *)
\* the attempts of Send's loop: for attempt := 0; attempt < maxRetries; attempt++
maxRetries == 3

\* what m.client.Send(message) returns: an error, or a response (which may be nil)
ClientError == [err |-> TRUE, nil |-> TRUE, code |-> 0]
NilResponse == [err |-> FALSE, nil |-> TRUE, code |-> 0]
Response(c) == [err |-> FALSE, nil |-> FALSE, code |-> c]
StatusCodes == {100, 200, 202, 302, 400, 429, 500, 503}
Replies == {ClientError, NilResponse} \cup {Response(c) : c \in StatusCodes}

\* sendErr == nil && response != nil && response.StatusCode >= 200 && response.StatusCode < 300
IsSuccess(reply) == ~reply.err /\ ~reply.nil /\ reply.code >= 200 /\ reply.code < 300

\* whether the loop goes on after a reply that is no success: it does after a client
\* error; after a response it returns when
\* response == nil || (response.StatusCode != 429 && response.StatusCode < 500)
GoesOnAfterAny(reply) == TRUE
GoesOn(reply) == reply.err \/ ~(reply.nil \/ (reply.code # 429 /\ reply.code < 500))

\* time.Second * time.Duration(1<<attempt), in seconds
Backoff(attempt) == 2 ^ attempt

\* getTemplate and the two ExecuteTemplate calls: which of them fails, if any
TemplateOutcomes == {"ok", "parse", "subject", "body"}

IdleSend ==
    [pc |-> "idle", attempt |-> 0, replies |-> <<>>, slept |-> <<>>, status |-> 0, err |-> "nil"]

\* Send, up to the loop: the template is parsed and rendered
SendBegin(tmpl) ==
    /\ mail.pc = "idle"
    /\ mail' = IF tmpl = "ok" THEN [IdleSend EXCEPT !.pc = "send"]
               ELSE [IdleSend EXCEPT !.pc = "done", !.status = 0 - 1, !.err = tmpl]
    /\ UNCHANGED <<now, postVars, rlVars, cacheVars, feedVars,
                   tx, txCommitted, reqDone, own, environ, port, fh, srv>>

\* Send, one pass of the loop up to the backoff: m.client.Send(message) and what
\* the loop does with its reply
SendAttempt(reply) ==
    /\ mail.pc = "send"
    /\ mail.attempt < maxRetries
    /\ mail' =
          IF IsSuccess(reply)
          THEN [mail EXCEPT !.pc = "done", !.replies = Append(@, reply), !.status = reply.code]
          ELSE IF ~GoesOn(reply)
          THEN [mail EXCEPT !.pc = "done", !.replies = Append(@, reply), !.status = 0 - 1,
                            !.err = "sendgrid non-success status"]
          ELSE IF mail.attempt < maxRetries - 1
          THEN [mail EXCEPT !.pc = "sleep", !.replies = Append(@, reply)]
          ELSE [mail EXCEPT !.pc = "done", !.replies = Append(@, reply), !.attempt = @ + 1,
                            !.status = 0 - 1, !.err = "failed to send email after attempts"]
    /\ UNCHANGED <<now, postVars, rlVars, cacheVars, feedVars,
                   tx, txCommitted, reqDone, own, environ, port, fh, srv>>

\* Send, the backoff: time.Sleep(...), then attempt++
SendSleep ==
    /\ mail.pc = "sleep"
    /\ mail' = [mail EXCEPT !.pc = "send", !.slept = Append(@, Backoff(mail.attempt)),
                            !.attempt = @ + 1]
    /\ UNCHANGED <<now, postVars, rlVars, cacheVars, feedVars,
                   tx, txCommitted, reqDone, own, environ, port, fh, srv>>

\* Send returns to its caller
SendReturn ==
    /\ mail.pc = "done"
    /\ mail' = IdleSend
    /\ UNCHANGED <<now, postVars, rlVars, cacheVars, feedVars,
                   tx, txCommitted, reqDone, own, environ, port, fh, srv>>

(* -------------------------- graceful shutdown --------------------------- *)
\* app.config.shutdownTimeout, in ticks of the shutdown context's timer
shutdownTimeout == 2
\* connections in flight the server is explored with
MaxConns == 1
Signals == {"SIGINT", "SIGTERM"}
NoSignal == "none"

\* runWithGracefulShutdown has not been called
NotStarted ==
    [main |-> "idle", ret |-> "none", handler |-> "none", quit |-> NoSignal, sig |-> NoSignal,
     server |-> "new", inShutdown |-> FALSE, active |-> 0, elapsed |-> 0, shutdownErr |-> "none",
     done |-> FALSE, logged |-> FALSE, killed |-> FALSE]

\* the process runs: main has not returned (main exits the process when it does)
\* and no signal has ended it
Running == srv.main # "returned" /\ ~srv.killed

\* runWithGracefulShutdown up to srv.ListenAndServe(): the server is built, the
\* channel made, go app.handleGracefulShutdown(srv, shutdownComplete)
RunServer ==
    /\ srv.main = "idle"
    /\ srv' = [srv EXCEPT !.main = "listen", !.handler = "spawned"]
    /\ UNCHANGED <<now, postVars, rlVars, cacheVars, feedVars,
                   tx, txCommitted, reqDone, own, environ, port, fh, mail>>

\* handleGracefulShutdown: signal.Notify(quit, os.Interrupt, syscall.SIGTERM)
HandlerNotify ==
    /\ Running /\ srv.handler = "spawned"
    /\ srv' = [srv EXCEPT !.handler = "waiting"]
    /\ UNCHANGED <<now, postVars, rlVars, cacheVars, feedVars,
                   tx, txCommitted, reqDone, own, environ, port, fh, mail>>

\* the operating system sends SIGINT or SIGTERM: before Notify it ends the process,
\* after it the signal goes into quit unless quit (of capacity 1) is full
Signal(sig) ==
    /\ Running /\ srv.main # "idle"
    /\ srv' = IF srv.handler = "spawned" THEN [srv EXCEPT !.killed = TRUE]
              ELSE IF srv.quit = NoSignal THEN [srv EXCEPT !.quit = sig]
              ELSE srv
    /\ srv' # srv
    /\ UNCHANGED <<now, postVars, rlVars, cacheVars, feedVars,
                   tx, txCommitted, reqDone, own, environ, port, fh, mail>>

\* handleGracefulShutdown: sig := <-quit, the log line, context.WithTimeout
HandlerReceive ==
    /\ Running /\ srv.handler = "waiting" /\ srv.quit # NoSignal
    /\ srv' = [srv EXCEPT !.handler = "received", !.sig = srv.quit, !.quit = NoSignal]
    /\ UNCHANGED <<now, postVars, rlVars, cacheVars, feedVars,
                   tx, txCommitted, reqDone, own, environ, port, fh, mail>>

\* srv.Shutdown(ctx) begins: the server is marked as shutting down and its
\* listeners are closed
ShutdownBegin ==
    /\ Running /\ srv.handler = "received"
    /\ srv' = [srv EXCEPT !.handler = "shutdown", !.inShutdown = TRUE,
                          !.server = IF @ = "serving" THEN "closed" ELSE @]
    /\ UNCHANGED <<now, postVars, rlVars, cacheVars, feedVars,
                   tx, txCommitted, reqDone, own, environ, port, fh, mail>>

\* the timer of the shutdown context
ShutdownTick ==
    /\ Running /\ srv.handler = "shutdown" /\ srv.elapsed < shutdownTimeout
    /\ srv' = [srv EXCEPT !.elapsed = @ + 1]
    /\ UNCHANGED <<now, postVars, rlVars, cacheVars, feedVars,
                   tx, txCommitted, reqDone, own, environ, port, fh, mail>>

\* srv.Shutdown(ctx) returns: nil once no connection is in flight, ctx.Err() once
\* the context is done; the handler logs the error and goes on
ShutdownReturn(timedOut) ==
    /\ Running /\ srv.handler = "shutdown"
    /\ IF timedOut THEN srv.elapsed = shutdownTimeout ELSE srv.active = 0
    /\ srv' = [srv EXCEPT !.handler = "closing",
                          !.shutdownErr = IF timedOut THEN "deadline exceeded" ELSE "nil"]
    /\ UNCHANGED <<now, postVars, rlVars, cacheVars, feedVars,
                   tx, txCommitted, reqDone, own, environ, port, fh, mail>>

\* handleGracefulShutdown: close(done)
HandlerClose ==
    /\ Running /\ srv.handler = "closing"
    /\ srv' = [srv EXCEPT !.handler = "ended", !.done = TRUE]
    /\ UNCHANGED <<now, postVars, rlVars, cacheVars, feedVars,
                   tx, txCommitted, reqDone, own, environ, port, fh, mail>>

\* srv.ListenAndServe() gets its listener and serves
ListenStart ==
    /\ Running /\ srv.main = "listen" /\ srv.server = "new" /\ ~srv.inShutdown
    /\ srv' = [srv EXCEPT !.server = "serving"]
    /\ UNCHANGED <<now, postVars, rlVars, cacheVars, feedVars,
                   tx, txCommitted, reqDone, own, environ, port, fh, mail>>

\* srv.ListenAndServe() returns an error other than ErrServerClosed (the address is
\* taken, Accept fails); runWithGracefulShutdown returns it
ListenFail ==
    /\ Running /\ srv.main = "listen" /\ ~srv.inShutdown
    /\ srv' = [srv EXCEPT !.server = "failed", !.main = "returned", !.ret = "err"]
    /\ UNCHANGED <<now, postVars, rlVars, cacheVars, feedVars,
                   tx, txCommitted, reqDone, own, environ, port, fh, mail>>

\* srv.ListenAndServe() returns ErrServerClosed once Shutdown has been called
ListenClosed ==
    /\ Running /\ srv.main = "listen" /\ srv.inShutdown
    /\ srv' = [srv EXCEPT !.main = "wait"]
    /\ UNCHANGED <<now, postVars, rlVars, cacheVars, feedVars,
                   tx, txCommitted, reqDone, own, environ, port, fh, mail>>

\* <-shutdownComplete: the receive goes through once the channel is closed
ShutdownCompleteNotAwaited == TRUE
ShutdownComplete == srv.done

\* runWithGracefulShutdown: <-shutdownComplete, the log line, return nil
RunReturn ==
    /\ Running /\ srv.main = "wait" /\ ShutdownComplete
    /\ srv' = [srv EXCEPT !.main = "returned", !.ret = "nil", !.logged = TRUE]
    /\ UNCHANGED <<now, postVars, rlVars, cacheVars, feedVars,
                   tx, txCommitted, reqDone, own, environ, port, fh, mail>>

\* a connection is accepted and its request begins
ConnOpen ==
    /\ Running /\ srv.server = "serving" /\ srv.active < MaxConns
    /\ srv' = [srv EXCEPT !.active = @ + 1]
    /\ UNCHANGED <<now, postVars, rlVars, cacheVars, feedVars,
                   tx, txCommitted, reqDone, own, environ, port, fh, mail>>

\* a request in flight ends and its connection goes idle
ConnClose ==
    /\ Running /\ srv.active > 0
    /\ srv' = [srv EXCEPT !.active = @ - 1]
    /\ UNCHANGED <<now, postVars, rlVars, cacheVars, feedVars,
                   tx, txCommitted, reqDone, own, environ, port, fh, mail>>

CallInit ==
    /\ tx = [t \in TxCallers |-> IdleTx]
    /\ txCommitted = 0
    /\ reqDone = [c \in Callers |-> FALSE]
    /\ own = [h \in OwnReqs |-> IdleOwn]
    /\ environ = Unset
    /\ port = NoPort
    /\ fh = NoFeedRequest
    /\ mail = IdleSend
    /\ srv = NotStarted

\* time passes; Redis removes the keys whose expiry time has come
Tick ==
    /\ now < MaxTime
    /\ now' = now + 1
    /\ IF rlExp # NoExpiry /\ rlExp <= now + 1
       THEN /\ rlCount' = 0
            /\ rlExp' = NoExpiry
            /\ grants' = 0
            /\ winCalls' = 0
            /\ winFirst' = NoTime
            /\ cl' = [c \in Callers |-> [cl[c] EXCEPT !.joined = FALSE]]
       ELSE UNCHANGED <<rlCount, rlExp, grants, winCalls, winFirst, cl>>
    /\ cache' = [i \in {j \in DOMAIN cache : cache[j].exp > now + 1} |-> cache[i]]
    /\ UNCHANGED <<postVars, feedVars, callVars, limit, window, winRet, redisEnabled, users, gu, userWrites>>

\* users registered before the requests arrive; Redis holds no user key
CacheInit(enabled) ==
    /\ redisEnabled \in enabled
    /\ users = [i \in {1, 2, 3} |-> [username |-> <<"u", UserLetter[i]>>, password |-> <<"h", UserLetter[i]>>,
                                     is_active |-> FALSE]]
    /\ cache = <<>>
    /\ gu = [g \in Getters |-> IdleGet]
    /\ userWrites = [i \in {1, 2, 3} |-> [n |-> 0, at |-> NoTime]]

PostsInit ==
    /\ posts = <<>>
    /\ nextId = 1
    /\ rq = [r \in Reqs |-> IdleReq]
    /\ created = [i \in PostIds |-> 0]
    /\ updOk = [i \in PostIds |-> [v \in Versions |-> 0]]
    /\ updTried = [i \in PostIds |-> [v \in Versions |-> FALSE]]

\* NewRedisFixedWindowLimiter(client, limit, window) on an empty Redis
LimiterInit(limits, windows) ==
    /\ limit \in limits
    /\ window \in windows
    /\ rlCount = 0
    /\ rlExp = NoExpiry
    /\ cl = [c \in Callers |-> IdleCall]
    /\ grants = 0
    /\ winCalls = 0
    /\ winFirst = NoTime
    /\ winRet = NoTime

\* the posts store, empty; the limiter is not called
InitPosts ==
    /\ now = 0
    /\ PostsInit
    /\ LimiterInit({1}, {1})
    /\ CacheInit({FALSE})
    /\ FeedInit
    /\ CallInit

\* the request that creates and deletes the posts the three requests update
Owner == "r3"

NextPosts ==
    \/ \E in \in CreateInputs : CreatePost(Owner, in)
    \/ \E r \in Reqs, id \in 1 .. MaxPosts : Load(r, id)
    \/ \E r \in Reqs, pl \in Patches : UpdatePost(r, pl[1], pl[2], pl[3])
    \/ \E id \in 1 .. MaxPosts : Delete(Owner, id)
    \/ \E r \in Reqs : Finish(r)

\* the posts store under concurrent requests
SpecPosts == InitPosts /\ [][NextPosts]_vars

(* ------------------------- store specification ------------------------- *)
\* the Post values Create is called with: each of the local checks fails once,
\* one author has no row in users
StoreCreateInputs ==
    {<<TitleGo, SomeText, 1, {}>>, <<EmptyStr, SomeText, 1, {}>>, <<TitleGo, EmptyStr, 1, {}>>,
     <<TitleGo, SomeText, 0, {}>>, <<TitleGo, SomeText, 4, {}>>}
StoreReqs == {"r1", "r2"}

\* a Create of the store specification, whose INSERT may fail
CreateStore(r, in, fault) ==
    nextId <= MaxStorePosts /\ Create(r, in[1], in[2], in[3], in[4], fault, PqDetail)

\* every operation of PostStore, from two concurrent requests, with a store that may fail
NextStore ==
    \/ \E r \in StoreReqs, in \in StoreCreateInputs, fault \in StoreFaults \cup {"none"} :
          CreateStore(r, in, fault)
    \/ \E r \in StoreReqs : CreateNil(r)
    \/ \E r \in StoreReqs, id \in 0 .. MaxStorePosts : Load(r, id)
    \/ UpdatePost("r1", Some(TitleNew), Absent, Absent)
    \/ \E r \in StoreReqs, id \in 0 .. MaxStorePosts : Delete(r, id)
    \/ \E r \in StoreReqs : Finish(r)
SpecStore == InitPosts /\ [][NextStore]_vars

\* POST /posts by concurrent clients; the INSERT may fail, with either text
NextHandlers ==
    \/ \E r \in StoreReqs, payload \in PostPayloads, fault \in StoreFaults \cup {"none"},
          text \in {PqDetail, PqOtherDetail} : CreatePostHandler(r, payload, fault, text)
    \/ \E r \in StoreReqs : Finish(r)
SpecHandlers == InitPosts /\ [][NextHandlers]_vars

(* ------------------------ limiter specifications ----------------------- *)
InitLimiter ==
    /\ now = 0
    /\ PostsInit
    /\ LimiterInit(1 .. MaxLimit, 1 .. MaxWindow)
    /\ CacheInit({FALSE})
    /\ FeedInit
    /\ CallInit

\* concurrent callers, Redis commands may fail
NextLimiter ==
    \/ \E c \in Callers, fail \in BOOLEAN : AllowGet(c, fail)
    \/ \E c \in Callers, fail \in BOOLEAN : AllowIncr(c, fail)
    \/ \E c \in Callers, fail \in BOOLEAN : AllowExpire(c, fail)
    \/ \E c \in Callers, fail \in BOOLEAN : AllowTTL(c, fail)
    \/ \E c \in Callers : AllowReturn(c)
    \/ Tick
SpecLimiter == InitLimiter /\ [][NextLimiter]_vars

\* concurrent callers, no Redis command fails
NextLimiterOk ==
    \/ \E c \in Callers : AllowGet(c, FALSE)
    \/ \E c \in Callers : AllowIncr(c, FALSE)
    \/ \E c \in Callers : AllowExpire(c, FALSE)
    \/ \E c \in Callers : AllowTTL(c, FALSE)
    \/ \E c \in Callers : AllowReturn(c)
    \/ Tick
SpecLimiterOk == InitLimiter /\ [][NextLimiterOk]_vars

\* one caller at a time, no Redis command fails
NextLimiterSeq ==
    \/ AllowGet("c1", FALSE)
    \/ AllowIncr("c1", FALSE)
    \/ AllowExpire("c1", FALSE)
    \/ AllowTTL("c1", FALSE)
    \/ AllowReturn("c1")
    \/ Tick
SpecLimiterSeq == InitLimiter /\ [][NextLimiterSeq]_vars

\* one caller of Allow at a time; the request may end early, Redis commands may fail
NextLimiterCancel ==
    \/ \E fail \in BOOLEAN : BeginRequest("c1", fail)
    \/ \E fail \in BOOLEAN : AllowIncr("c1", fail)
    \/ \E fail \in BOOLEAN : AllowExpire("c1", fail)
    \/ \E fail \in BOOLEAN : AllowTTL("c1", fail)
    \/ AllowReturn("c1")
    \/ CancelRequest("c1")
    \/ EndRequest("c1")
    \/ Tick
SpecLimiterCancel == InitLimiter /\ [][NextLimiterCancel]_vars

\* C25: once the request a call of Allow serves is cancelled or past its deadline,
\* the next thing the call does is return, with an error that says so.
C25_BoundToRequest ==
    [][\A c \in Callers :
        (reqDone[c] /\ cl[c].pc \notin {"idle", "done"} /\ cl'[c] # cl[c])
            => (cl'[c].pc = "done" /\ cl'[c].err \in {"canceled", "timeout"})]_vars

(* ------------------------- cache specification ------------------------- *)
InitCache ==
    /\ now = 0
    /\ PostsInit
    /\ LimiterInit({1}, {1})
    /\ CacheInit(BOOLEAN)
    /\ FeedInit
    /\ CallInit

\* concurrent getUser calls; the store and Redis may fail
NextCache ==
    \/ \E g \in Getters, uid \in GetUserArgs, fail \in BOOLEAN : GetUserDirect(g, uid, fail)
    \/ \E g \in Getters, uid \in GetUserArgs, fail \in BOOLEAN : GetUserCacheGet(g, uid, fail)
    \/ \E g \in Getters, fail \in BOOLEAN : GetUserStoreRead(g, fail)
    \/ \E g \in Getters, fail \in BOOLEAN : GetUserCacheSet(g, fail)
    \/ \E g \in Getters : GetUserReturn(g)
    \/ \E uid \in ActivateArgs, fail \in BOOLEAN : ActivateUser(uid, fail)
    \/ Tick
SpecCache == InitCache /\ [][NextCache]_vars

(* ------------------------- claims on the cache -------------------------- *)
\* C4: a getUser call that missed the cache, read the user from the store and then
\* failed to write the cache returns that user and no error.
C4_SetFailureDoesNotFailRead ==
    \A g \in Getters :
        (gu[g].pc = "done" /\ gu[g].missed /\ gu[g].read /\ gu[g].setErr) =>
            (gu[g].err = "nil" /\ ~gu[g].isNil /\ gu[g].user = ScanUser(gu[g].uid))

\* a getUser call that returned a user
Returned(g) == gu[g].pc = "done" /\ gu[g].err = "nil" /\ ~gu[g].isNil

\* C11: a getUser call that began more than CacheTTL after the last committed
\* write to the user's row returns the row as that write left it.
C11_BoundedStaleness ==
    \A g \in Getters :
        (/\ Returned(g)
         /\ userWrites[gu[g].uid].at # NoTime
         /\ gu[g].began > userWrites[gu[g].uid].at + CacheTTL)
        => gu[g].seen = userWrites[gu[g].uid].n

\* C12: once a write to a user's row has committed and its handler has returned,
\* Redis holds no entry of that user that was set before the write.
C12_NoEntryPredatesWrite ==
    \A uid \in DOMAIN cache : cache[uid].setGen = userWrites[uid].n

SetDone(g) == gu[g].pc = "set" /\ gu'[g].pc = "done" /\ ~gu'[g].setErr
\* what UserStore.Get returns for uid when Redis does not fail
GetNow(uid) == Get(uid, RedisGet(uid, FALSE))

\* C20: Get right after Set(e) returns a user equal to e, and an entry is gone
\* once CacheTTL has passed since it was set.
C20_RoundTrip ==
    /\ [][\A g \in Getters :
            SetDone(g) => (~GetNow(gu[g].uid)'.isNil /\ GetNow(gu[g].uid)'.user = gu[g].user)]_vars
    /\ [](\A uid \in DOMAIN cache : now < cache[uid].exp /\ cache[uid].exp <= now + CacheTTL)

\* C20 for the fields that json.Marshal writes: these survive the round trip
C20_ExportedFieldsRoundTrip ==
    /\ [][\A g \in Getters :
            SetDone(g) => (~GetNow(gu[g].uid)'.isNil
                           /\ Marshal(GetNow(gu[g].uid)'.user) = Marshal(gu[g].user))]_vars
    /\ [](\A uid \in DOMAIN cache : now < cache[uid].exp /\ cache[uid].exp <= now + CacheTTL)

\* the password hashes a row of users may hold
Passwords == {EmptyStr} \cup {users[i].password : i \in DOMAIN users}

\* C27: the payload a Set writes and the JSON response for a user a getUser call
\* returned are those of the same user with any other password hash.
C27_PasswordNotSerialized ==
    /\ [][\A g \in Getters :
            SetDone(g) =>
                \A pw \in Passwords :
                    cache'[gu[g].uid].data = Marshal([gu[g].user EXCEPT !.Password = pw])]_vars
    /\ [](\A g \in Getters :
            Returned(g) =>
                \A pw \in Passwords :
                    UserResponse(gu[g].user) = UserResponse([gu[g].user EXCEPT !.Password = pw]))

\* a user read from the store with its password hash has been written to the
\* cache and returned
C27_Witness ==
    \E g \in Getters :
        /\ Returned(g) /\ gu[g].read /\ ~gu[g].setErr
        /\ gu[g].user.Password # EmptyStr
        /\ gu[g].uid \in DOMAIN cache
        /\ cache[gu[g].uid].data = Marshal(gu[g].user)

\* a step in which getter g2 begins a getUser call and returns from it at once (a
\* cache hit, or the store read when the cache is off), after g1 has returned a
\* copy of the same user that no write has been committed since
ReadAgain(g1, g2) ==
    /\ g1 # g2
    /\ Returned(g1)
    /\ gu[g2].pc = "idle" /\ gu'[g2].pc = "done"
    /\ gu'[g2].err = "nil" /\ ~gu'[g2].isNil
    /\ gu'[g2].uid = gu[g1].uid
    /\ gu[g1].seen = userWrites[gu[g1].uid].n

\* C28: a getUser call that follows another of the same user with no write in
\* between returns the user the first returned and leaves the users table as it is.
C28_ReadIdempotent ==
    [][\A g1, g2 \in Getters :
        ReadAgain(g1, g2) => (gu'[g2].user = gu[g1].user /\ users' = users)]_vars

\* C28 for the fields that the cache keeps: these are the same in both reads
C28_ReadIdempotentExported ==
    [][\A g1, g2 \in Getters :
        ReadAgain(g1, g2) => (Marshal(gu'[g2].user) = Marshal(gu[g1].user) /\ users' = users)]_vars

\* C21: a Set that succeeds leaves the key holding that Set's payload with a full
\* CacheTTL ahead, whether or not the key was there and whatever row version either
\* copy was read at; a key changes only by a Set on it or by its expiry.
C21_SetLastWriteWins ==
    /\ [][\A g \in Getters :
            SetDone(g) =>
                (/\ gu[g].uid \in DOMAIN cache'
                 /\ cache'[gu[g].uid].data = Marshal(gu[g].user)
                 /\ cache'[gu[g].uid].seen = gu[g].seen
                 /\ cache'[gu[g].uid].exp = now + CacheTTL)]_vars
    /\ [][\A uid \in DOMAIN cache :
            (uid \notin DOMAIN cache' \/ cache'[uid] # cache[uid]) =>
                \/ \E g \in Getters : SetDone(g) /\ gu[g].uid = uid
                \/ uid \notin DOMAIN cache' /\ cache[uid].exp <= now']_vars

\* two getUser calls of one user that began in this tick have both set the key; the
\* key holds the copy read before the row was written, so that Set ran last, over
\* the entry holding the copy read after the write
C21_Witness ==
    /\ gu["g1"].pc = "done" /\ gu["g1"].read /\ ~gu["g1"].setErr /\ gu["g1"].began = now
    /\ gu["g2"].pc = "done" /\ gu["g2"].read /\ ~gu["g2"].setErr /\ gu["g2"].began = now
    /\ gu["g1"].uid = gu["g2"].uid
    /\ gu["g1"].seen < gu["g2"].seen
    /\ gu["g1"].uid \in DOMAIN cache
    /\ cache[gu["g1"].uid].seen = gu["g1"].seen
    /\ cache[gu["g1"].uid].exp = now + CacheTTL

(* --------------------- checkPostOwnership specification ----------------- *)
\* concurrent requests of users 1 and 2, of every role level, on posts of users 1 and 2
NextOwnership ==
    \/ \E h \in OwnReqs, id \in {1, 2}, level \in 1 .. 3, owner \in {1, 2},
          requiredRole \in RequiredRoles, fail \in BOOLEAN :
            CheckPostOwnership(h, id, level, owner, requiredRole, fail)
    \/ \E h \in OwnReqs : OwnershipReturn(h)
SpecOwnership == InitPosts /\ [][NextOwnership]_vars

\* C29: the wrapped handler has run exactly when the user owns the post or the
\* role lookup succeeded and the user's level is at least the required role's;
\* otherwise the response is 500 when the lookup failed and 403 when it did not.
C29_OwnerOrRole ==
    \A h \in OwnReqs :
        own[h].pc = "done" =>
            LET isOwner == own[h].owner = own[h].userID
                known == own[h].required \in DOMAIN RoleLevel
                enough == known /\ own[h].lookup = "found"
                            /\ own[h].level >= RoleLevel[own[h].required]
            IN  /\ own[h].ran <=> (isOwner \/ enough)
                /\ own[h].ran => own[h].status = 0
                /\ (~own[h].ran /\ own[h].lookup = "failed") => own[h].status = 500
                /\ (~own[h].ran /\ own[h].lookup # "failed") => own[h].status = 403
                /\ ~known => own[h].lookup # "found"

\* a moderator who does not own the post has been let through to a handler that
\* requires moderator, and was refused with 403 where admin is required
C29_Witness ==
    /\ own["o1"].pc = "done" /\ own["o1"].owner # own["o1"].userID
    /\ own["o1"].level = 2 /\ own["o1"].required = "moderator" /\ own["o1"].ran
    /\ own["o2"].pc = "done" /\ own["o2"].owner # own["o2"].userID
    /\ own["o2"].level = 2 /\ own["o2"].required = "admin" /\ own["o2"].status = 403 /\ ~own["o2"].ran

(* ---------------------------- env specification ------------------------- *)
NextEnv ==
    \/ \E v \in EnvValues : Setenv(v)
    \/ Unsetenv
    \/ \E fallback \in Fallbacks : GetPortCall(fallback)
SpecEnv == InitPosts /\ [][NextEnv]_vars

\* the value GetPort puts into binding form: the variable's value without the
\* white space around it, or the fallback when the variable is unset or blank
PortValue(e, fallback) ==
    IF e.set /\ TrimSpace(e.val) # EmptyStr THEN TrimSpace(e.val) ELSE fallback

\* C30: GetPort returns that value with ":" put before it when it is not empty and
\* does not start with ":", and as it is otherwise; putting the result into binding
\* form again changes nothing.
C30_GetPortNormalises ==
    port.called =>
        LET v == PortValue(port.env, port.fallback)
        IN  /\ (v # EmptyStr /\ v[1] # ":") => port.out = <<":">> \o v
            /\ (v # EmptyStr /\ v[1] = ":") => port.out = v
            /\ v = EmptyStr => port.out = EmptyStr
            /\ PortAddr(port.out) = port.out
            /\ PortAddr(PortAddr(v)) = PortAddr(v)

\* GetPort has been called with ADDR set to "8" and has returned ":8"
C30_Witness ==
    /\ port.called /\ port.env.set
    /\ port.env.val = <<"8">>
    /\ port.out = <<":", "8">>

(* -------------------------- feed specification ------------------------- *)
InitFeed ==
    /\ now = 0
    /\ PostsInit
    /\ LimiterInit({1}, {1})
    /\ CacheInit({FALSE})
    /\ FeedInit
    /\ CallInit

FeedCreateInputs ==
    {<<TitleGo, SomeText, 1, {TagGo}>>, <<TitleNew, SomeText, 2, {}>>, <<TitleGo, SomeText, 3, {TagGo, TagDb}>>}
\* the tags parameter of the query string: absent, "go", "go, db"
TagsGo == <<"g", "o">>
TagsGoDb == <<"g", "o", ",", " ", "d", "b">>
FeedQueries ==
    {[Limit |-> DefaultLimit, Offset |-> 0, Sort |-> "desc", Tags |-> ParseTags(EmptyStr), Search |-> EmptyStr],
     [Limit |-> DefaultLimit, Offset |-> 0, Sort |-> "asc", Tags |-> ParseTags(TagsGo), Search |-> EmptyStr],
     [Limit |-> 1, Offset |-> 1, Sort |-> "asc", Tags |-> ParseTags(EmptyStr), Search |-> <<"g", "_">>],
     [Limit |-> 1, Offset |-> 0, Sort |-> "desc", Tags |-> ParseTags(TagsGoDb), Search |-> EmptyStr]}

\* a Create of the feed specification, which explores MaxFeedPosts posts
CreateFeedPost(in) == nextId <= MaxFeedPosts /\ Create("r1", in[1], in[2], in[3], in[4], "none", PqDetail)
\* the clock of the feed specification
FeedTick == now < MaxFeedTime /\ Tick

NextFeed ==
    \/ \E in \in FeedCreateInputs : CreateFeedPost(in)
    \/ Finish("r1")
    \/ \E pid \in 1 .. MaxFeedPosts, uid \in {2} : CreateComment(pid, uid)
    \/ \E a \in {1}, b \in {2, 3} : Follow(a, b)
    \/ \E a \in {1}, b \in {2, 3} : Unfollow(a, b)
    \/ \E u \in {1, 2}, fq \in FeedQueries : GetUserFeed(u, fq)
    \/ FeedTick
SpecFeed == InitFeed /\ [][NextFeed]_vars

\* the feed queries of user 1 over posts and follow edges alone: no comments, and
\* no edge is removed
NextFeedPage ==
    \/ \E in \in FeedCreateInputs : CreateFeedPost(in)
    \/ Finish("r1")
    \/ \E b \in {2, 3} : Follow(1, b)
    \/ \E fq \in FeedQueries : GetUserFeed(1, fq)
    \/ FeedTick
SpecFeedPage == InitFeed /\ [][NextFeedPage]_vars

\* GET /feed with every query string of FeedRequests; the store may fail
NextFeedHandler ==
    \/ \E q \in FeedRequests, fail \in BOOLEAN : GetUserFeedHandler(q, fail)
SpecFeedHandler == InitFeed /\ [][NextFeedHandler]_vars

(* ------------------------- mailer specification ------------------------ *)
\* Send, with every reply of SendGrid at every attempt
NextMail ==
    \/ \E tmpl \in TemplateOutcomes : SendBegin(tmpl)
    \/ \E reply \in Replies : SendAttempt(reply)
    \/ SendSleep
    \/ SendReturn
\* each call of m.client.Send and each time.Sleep returns
SpecMail ==
    /\ InitPosts
    /\ [][NextMail]_vars
    /\ WF_vars(\E reply \in Replies : SendAttempt(reply))
    /\ WF_vars(SendSleep)

(* ------------------------ shutdown specification ----------------------- *)
\* the server from its start to the return of runWithGracefulShutdown; signals
\* arrive at any time, requests come and go, the server may fail
NextShutdown ==
    \/ RunServer
    \/ HandlerNotify
    \/ \E sig \in Signals : Signal(sig)
    \/ HandlerReceive
    \/ ShutdownBegin
    \/ ShutdownTick
    \/ \E timedOut \in BOOLEAN : ShutdownReturn(timedOut)
    \/ HandlerClose
    \/ ListenStart
    \/ ListenFail
    \/ ListenClosed
    \/ RunReturn
    \/ ConnOpen
    \/ ConnClose
\* both goroutines are scheduled and the timer runs; signals, requests and
\* failures of the server come or do not
SpecShutdown ==
    /\ InitPosts
    /\ [][NextShutdown]_vars
    /\ WF_vars(HandlerNotify) /\ WF_vars(HandlerReceive) /\ WF_vars(ShutdownBegin)
    /\ WF_vars(ShutdownTick) /\ WF_vars(\E timedOut \in BOOLEAN : ShutdownReturn(timedOut))
    /\ WF_vars(HandlerClose) /\ WF_vars(ListenClosed) /\ WF_vars(RunReturn)

(* ------------------------- withTx specification ------------------------ *)
\* concurrent callers of withTx; BeginTx, fn, Rollback and Commit may fail
NextTx ==
    \/ \E t \in TxCallers, fail \in BOOLEAN : WithTxBegin(t, fail)
    \/ \E t \in TxCallers, fail \in BOOLEAN : WithTxFn(t, fail)
    \/ \E t \in TxCallers, fail \in BOOLEAN : WithTxEnd(t, fail)
    \/ \E t \in TxCallers : WithTxReturn(t)
SpecTx == InitFeed /\ [][NextTx]_vars

\* C24: a withTx call that returns after BeginTx, fn or Commit failed returns a
\* non-nil error, and a call has committed only if its fn succeeded.
C24_NoErrorSwallowed ==
    \A t \in TxCallers :
        tx[t].pc = "done" =>
            /\ tx[t].fault # "none" => tx[t].err # "nil"
            /\ tx[t].committed => ~tx[t].fnErr

\* the half of C24 that holds: no call whose fn failed has committed
C24_CommitsOnlyOnSuccess ==
    \A t \in TxCallers : tx[t].committed => (~tx[t].fnErr /\ tx[t].fault = "none")

(* ------------------------ claims on the limiter ------------------------ *)
\* C2: in one life of the identity's key, with no Redis command failing, the Allow
\* calls that returned allowed=true never number more than limit.
C2_GrantsWithinLimit == grants <= limit

\* C3: an Allow call whose Get or Incr failed returns allowed=true with retry-after 0,
\* whatever the counter holds.
C3_FailOpen ==
    \A c \in Callers :
        (cl[c].pc = "done" /\ cl[c].err \in {"get", "incr"}) => (cl[c].allowed /\ cl[c].retry = 0)

\* the counter has reached the limit, Get fails, and the call is allowed
C3_Witness ==
    \E c \in Callers :
        cl[c].pc = "done" /\ cl[c].err = "get" /\ rlCount >= limit /\ cl[c].allowed /\ cl[c].retry = 0

\* C6: with one caller at a time and no Redis failure, the k-th Allow call of a key's
\* life returns allowed=true (retry-after 0) for k <= limit and allowed=false with
\* retry-after <= window for k > limit; a call that begins once window has passed since
\* the call that created the key returned is allowed again.
C6_SequentialWindow ==
    \A c \in Callers :
        cl[c].pc = "done" =>
            /\ cl[c].k <= limit => (cl[c].allowed /\ cl[c].retry = 0)
            /\ cl[c].k > limit => (~cl[c].allowed /\ cl[c].retry <= window)
            /\ cl[c].late => (cl[c].allowed /\ cl[c].k = 1)

\* call limit+1 of a window is denied with a retry-after in 1 .. window
C6_Witness ==
    \E c \in Callers :
        /\ cl[c].pc = "done" /\ cl[c].k = limit + 1 /\ ~cl[c].allowed
        /\ cl[c].retry >= 1 /\ cl[c].retry <= window /\ rlCount = limit
\* a call that began window after the first call returned is allowed again
C6_WitnessAgain ==
    \E c \in Callers : cl[c].pc = "done" /\ cl[c].late /\ cl[c].allowed /\ winRet # NoTime

\* C7: whenever the key has an expiry, it is the time of the first increment of the
\* key's life plus window.
C7_ExpiryIsFirstIncrPlusWindow ==
    (rlCount >= 1 /\ rlExp # NoExpiry) => rlExp = winFirst + window

\* what does hold of the expiry: once set it is never changed while the key lives,
\* and it is only ever set by the call whose increment produced 1
C7_ExpirySetOnce ==
    [][(rlExp # NoExpiry /\ rlCount' >= 1) => rlExp' = rlExp]_vars

\* C8: a key that holds a counter >= 1 has an expiry.
C8_CounterHasExpiry == rlCount >= 1 => rlExp # NoExpiry

(* ------------------------- claims on the posts ------------------------- *)
\* the Updates that have returned and had reached the UPDATE statement
DoneUpdates == {r \in Reqs : rq[r].pc = "done" /\ rq[r].op = "update" /\ ReachesUpdate(rq[r].post)}
EverDeleted(id) == id < nextId /\ id \notin DOMAIN posts
RECURSIVE SumOk(_, _)
SumOk(id, vs) == IF vs = {} THEN 0 ELSE LET v == CHOOSE x \in vs : TRUE IN updOk[id][v] + SumOk(id, vs \ {v})

\* C1: of the Updates of one post that carry the same base version v and reach the
\* conditional UPDATE, exactly one succeeds (never two, and one as soon as any ran),
\* every other one returns ErrNotFound, the successful caller holds version v+1, and
\* the stored version is v+1 until an Update carrying v+1 runs.
C1_OneWinnerPerBaseVersion ==
    /\ \A id \in PostIds, v \in Versions :
          /\ updOk[id][v] <= 1
          /\ (updTried[id][v] /\ ~EverDeleted(id)) =>
                /\ updOk[id][v] = 1
                /\ posts[id].version >= v + 1
                /\ (v + 1 \in Versions /\ ~updTried[id][v + 1]) => posts[id].version = v + 1
    /\ \A r \in DoneUpdates :
          /\ rq[r].err \in {"nil", "ErrNotFound"}
          /\ rq[r].err = "nil" => rq[r].post.Version = rq[r].base + 1
    /\ \A r1, r2 \in DoneUpdates :
          (r1 # r2 /\ rq[r1].post.ID = rq[r2].post.ID /\ rq[r1].base = rq[r2].base)
              => ~(rq[r1].err = "nil" /\ rq[r2].err = "nil")

\* three Updates of one post with one base version have returned: one nil, two ErrNotFound
C1_Witness ==
    \E r1, r2, r3 \in DoneUpdates :
        /\ r1 # r2 /\ r2 # r3 /\ r1 # r3
        /\ rq[r1].post.ID = rq[r2].post.ID /\ rq[r2].post.ID = rq[r3].post.ID
        /\ rq[r1].base = rq[r2].base /\ rq[r2].base = rq[r3].base
        /\ rq[r1].err = "nil" /\ rq[r2].err = "ErrNotFound" /\ rq[r3].err = "ErrNotFound"
        /\ posts[rq[r1].post.ID].version = rq[r1].base + 1

\* C5: the stored version of a post is its version at creation plus the number of
\* successful Updates, and every step that changes a stored version is an Update whose
\* supplied version equals the stored one and which raises it by exactly 1.
C5_VersionCounts ==
    \A id \in DOMAIN posts : posts[id].version = created[id] + SumOk(id, Versions)
C5_StepAccepted ==
    \A id \in DOMAIN posts :
        (id \in DOMAIN posts' /\ posts'[id] # posts[id]) =>
            /\ posts'[id].version = posts[id].version + 1
            /\ \E r \in Reqs : /\ rq[r].pc = "loaded" /\ rq'[r].pc = "done"
                                 /\ rq[r].post.ID = id
                                 /\ rq[r].post.Version = posts[id].version
                                 /\ rq'[r].err = "nil"
C5_VersionIsCreationPlusUpdates == [](C5_VersionCounts) /\ [][C5_StepAccepted]_vars

\* a post that two Updates succeeded on
C5_Witness ==
    \E id \in DOMAIN posts : SumOk(id, Versions) = 2 /\ posts[id].version = created[id] + 2
(* --------------------------- claims on the feed ------------------------ *)
\* a step in which a feed query returned
FeedReturned == feed' # feed
\* U follows the author: a followers row of U that names the author
Follows(u, author) == [user_id |-> u, follower_id |-> author] \in followers
\* the posts the feed of u is to hold: u's own and those of the users u follows,
\* as far as they pass the filters of the query
FeedExpected(u, fq) ==
    {id \in DOMAIN posts :
        /\ posts[id].user_id = u \/ Follows(u, posts[id].user_id)
        /\ SearchMatches(posts[id], fq.Search)
        /\ TagsMatch(posts[id].tags, fq.Tags)}
FeedIds(rows) == {rows[i].ID : i \in DOMAIN rows}
CommentsOf(id) == {c \in 1 .. Len(comments) : comments[c].post_id = id}

\* C9: a feed query whose page holds the whole result returns every post of
\* the user's own and of the users followed that passes the filters, whatever
\* the follow graph is (U without any follow edge included).
C9_OwnAndFollowedPosts ==
    [][(FeedReturned /\ feed'.fq.Offset = 0
          /\ feed'.fq.Limit >= Cardinality(FeedExpected(feed'.user, feed'.fq)))
        => FeedExpected(feed'.user, feed'.fq) \subseteq FeedIds(feed'.rows)]_vars

\* C10: every row a feed query returns carries as CommentsCount the number of
\* comments whose post_id is that post.
C10_CommentsCount ==
    [][FeedReturned
        => \A i \in DOMAIN feed'.rows :
              feed'.rows[i].CommentsCount = Cardinality(CommentsOf(feed'.rows[i].ID))]_vars

\* C10 for the posts of followed users only: there the count is right
C10_CommentsCountOfFollowed ==
    [][FeedReturned
        => \A i \in DOMAIN feed'.rows :
              feed'.rows[i].UserID # feed'.user
              => feed'.rows[i].CommentsCount = Cardinality(CommentsOf(feed'.rows[i].ID))]_vars

\* C9 for a user with at least one follow edge: the own posts are there
C9_WithAFollowEdge ==
    [][(FeedReturned /\ feed'.fq.Offset = 0
          /\ (\E f \in followers : f.user_id = feed'.user)
          /\ feed'.fq.Limit >= Cardinality(FeedExpected(feed'.user, feed'.fq)))
        => FeedExpected(feed'.user, feed'.fq) = FeedIds(feed'.rows)]_vars

(* ------------------------- claims on the store ------------------------- *)
\* steps in which request r's Create, GetByID, Delete returned
CreateStep(r) == rq[r].pc = "idle" /\ rq'[r].pc = "done" /\ rq'[r].op \in {"create", "create nil"}
LoadStep(r) == rq[r].pc = "idle" /\ rq'[r].pc # "idle" /\ rq'[r].op = "load"
DeleteStep(r) == rq[r].pc = "idle" /\ rq'[r].pc = "done" /\ rq'[r].op = "delete"
\* no row of the store changed in the step
StoreSame == posts' = posts /\ comments' = comments /\ created' = created

\* C13: after a successful Create the stored version of the post is 1 and the
\* Post value the caller passed holds Version 1.
C13_CreatedWithVersionOne ==
    \A r \in Reqs :
        (rq[r].pc = "done" /\ rq[r].op = "create" /\ rq[r].err = "nil")
        => (created[rq[r].id] = 1 /\ rq[r].post.Version = 1)

\* C13 for the stored row alone: it is inserted with version 1
C13_StoredVersionOne ==
    \A r \in Reqs :
        (rq[r].pc = "done" /\ rq[r].op = "create" /\ rq[r].err = "nil") => created[rq[r].id] = 1

\* C14: an Update that reached the UPDATE statement and changed no row returns
\* the same error, ErrNotFound, whether the post has no row or has another version.
C14_AbsentAndConflictAlike ==
    /\ \A r \in Reqs :
          (rq[r].pc = "done" /\ rq[r].op = "update" /\ rq[r].why \in {"absent", "version"})
          => rq[r].err = "ErrNotFound"
    /\ \A r1, r2 \in Reqs :
          (/\ rq[r1].pc = "done" /\ rq[r1].op = "update" /\ rq[r1].why = "absent"
           /\ rq[r2].pc = "done" /\ rq[r2].op = "update" /\ rq[r2].why = "version")
          => (rq[r1].err = rq[r2].err /\ rq[r1].status = rq[r2].status)

\* one Update failed on a deleted post, another on a version that had moved on
C14_Witness ==
    \E r1, r2 \in Reqs :
        /\ rq[r1].pc = "done" /\ rq[r1].op = "update" /\ rq[r1].why = "absent"
        /\ rq[r2].pc = "done" /\ rq[r2].op = "update" /\ rq[r2].why = "version"

FullPost(id) ==
    [ID |-> id, Title |-> posts[id].title, Content |-> posts[id].content,
     Tags |-> posts[id].tags, UserID |-> posts[id].user_id,
     CreatedAt |-> posts[id].created_at, UpdatedAt |-> posts[id].updated_at,
     Version |-> posts[id].version]

InvalidPost(q) ==
    \/ q.op = "create nil"
    \/ q.post.Title = EmptyStr
    \/ q.post.Content = EmptyStr
    \/ q.post.UserID <= 0

\* C17: Create with nil, an empty title, an empty content or a user id <= 0
\* returns ErrInvalidPostData and sends nothing to the store (whatever the store
\* would have answered), and a Create that returns an error changes no row.
C17_CreateValidatesFirst ==
    [][\A r \in Reqs :
        CreateStep(r) =>
            /\ InvalidPost(rq'[r]) =>
                  (/\ rq'[r].err = "ErrInvalidPostData" /\ rq'[r].why = "none"
                   /\ nextId' = nextId /\ StoreSame)
            /\ rq'[r].err # "nil" => StoreSame]_vars

\* a nil Create and a Create with user id 0 were refused while a post is stored
C17_Witness ==
    /\ rq["r1"].pc = "done" /\ rq["r1"].op = "create nil" /\ rq["r1"].err = "ErrInvalidPostData"
    /\ rq["r2"].pc = "done" /\ rq["r2"].op = "create" /\ rq["r2"].post.UserID <= 0
    /\ rq["r2"].err = "ErrInvalidPostData"
    /\ DOMAIN posts # {}

\* the failures of the INSERT that Create classifies
Classified == {"23505", "23503", "23514", "deadline"}
\* request r's Create got the failure f from the store
CreateFailed(r, f) == rq[r].pc = "done" /\ rq[r].op = "create" /\ rq[r].why = f

Candidates(u, fq) ==
    {id \in DOMAIN posts : FollowRows(id, u) # {} /\ SearchMatches(posts[id], fq.Search)}
\* the candidates the tag set of the query lets through
TagFiltered(u, fq) ==
    {id \in Candidates(u, fq) : fq.Tags = {} \/ \A t \in fq.Tags : t \in posts[id].tags}
\* the page of the query is wide enough for every post of S
WholePage(fq, S) == fq.Offset = 0 /\ fq.Limit >= Cardinality(S)

\* C22: with a non-empty tag set a feed query returns only candidates whose tags
\* hold every requested tag, and all of them when the page is wide enough; with the
\* empty tag set it returns every candidate whatever its tags are.
C22_TagContainment ==
    [][FeedReturned =>
        /\ FeedIds(feed'.rows) \subseteq TagFiltered(feed'.user, feed'.fq)
        /\ WholePage(feed'.fq, TagFiltered(feed'.user, feed'.fq))
              => FeedIds(feed'.rows) = TagFiltered(feed'.user, feed'.fq)
        /\ (feed'.fq.Tags = {} /\ WholePage(feed'.fq, Candidates(feed'.user, feed'.fq)))
              => FeedIds(feed'.rows) = Candidates(feed'.user, feed'.fq)]_vars

\* a query for two tags has returned a followed user's post that has both, while
\* the asking user's own post, created a tick earlier with one of the tags only,
\* was left out
C22_Witness ==
    /\ feed.fq.Tags = {TagGo, TagDb}
    /\ \E i \in DOMAIN feed.rows, id \in DOMAIN posts :
          /\ feed.rows[i].UserID # feed.user
          /\ {TagGo, TagDb} \subseteq feed.rows[i].Tags
          /\ id \notin FeedIds(feed.rows)
          /\ posts[id].user_id = feed.user
          /\ posts[id].tags = {TagGo}
          /\ posts[id].created_at < feed.rows[i].CreatedAt

\* the rows of a feed query are in the order sort asks for
Sorted(rows, sort) ==
    \A i, j \in DOMAIN rows :
        i < j => IF sort = "asc" THEN rows[i].CreatedAt <= rows[j].CreatedAt
                 ELSE rows[i].CreatedAt >= rows[j].CreatedAt
Min(a, b) == IF a < b THEN a ELSE b
Max(a, b) == IF a > b THEN a ELSE b

\* C23: the rows of a feed query are distinct filtered posts in the order of their
\* creation times as sort directs; there are min(limit, n - offset) of them, offset
\* of the posts left out may stand before the first row and the others may stand
\* after the last.
C23_OrderedPage ==
    [][FeedReturned =>
        LET fq == feed'.fq
            rows == feed'.rows
            all == FeedPosts(feed'.user, fq)
            n == Cardinality(all)
            rest == all \ FeedIds(rows)
        IN  /\ Sorted(rows, fq.Sort)
            /\ FeedIds(rows) \subseteq all
            /\ Cardinality(FeedIds(rows)) = Len(rows)
            /\ Len(rows) = Min(fq.Limit, Max(0, n - fq.Offset))
            /\ \A i \in DOMAIN rows : rows[i].CreatedAt = posts[rows[i].ID].created_at
            /\ Len(rows) > 0 =>
                  \E skipped \in SUBSET rest :
                      /\ Cardinality(skipped) = fq.Offset
                      /\ \A id \in skipped : InOrder(id, rows[1].ID, fq.Sort)
                      /\ \A id \in rest \ skipped : InOrder(rows[Len(rows)].ID, id, fq.Sort)]_vars

\* a query with limit 1 and offset 1 in ascending order has skipped the asking
\* user's own post and returned the post a followed user created a tick later
C23_Witness ==
    /\ feed.fq.Limit = 1 /\ feed.fq.Offset = 1 /\ feed.fq.Sort = "asc"
    /\ Len(feed.rows) = 1
    /\ feed.rows[1].UserID # feed.user
    /\ \E id \in DOMAIN posts :
          /\ id # feed.rows[1].ID
          /\ posts[id].user_id = feed.user
          /\ SearchMatches(posts[id], feed.fq.Search)
          /\ TagsMatch(posts[id].tags, feed.fq.Tags)
          /\ posts[id].created_at < feed.rows[1].CreatedAt

\* two POST /posts requests that Create has failed with the same kind of store
\* error for the same payload
SameFailure(r1, r2) ==
    /\ rq[r1].pc = "done" /\ rq[r1].op = "create" /\ rq[r1].err # "nil"
    /\ rq[r2].pc = "done" /\ rq[r2].op = "create" /\ rq[r2].err # "nil"
    /\ rq[r1].post = rq[r2].post
    /\ rq[r1].why = rq[r2].why

\* C26: two requests that differ in nothing but the text of the store error get
\* the same status code and the same body.
C26_NoRawErrorText ==
    \A r1, r2 \in StoreReqs :
        SameFailure(r1, r2) => CreatePostResponse(rq[r1]) = CreatePostResponse(rq[r2])

\* the half of C26 that holds: the status code does not depend on the text
C26_StatusIndependent ==
    \A r1, r2 \in StoreReqs :
        SameFailure(r1, r2) => CreatePostResponse(rq[r1]).status = CreatePostResponse(rq[r2]).status

(* ----------------------- claims on failed updates ----------------------- *)
\* the step in which request r's call of PostStore.Update returns an error
UpdateFails(r) ==
    rq[r].pc = "loaded" /\ rq'[r].pc = "done" /\ rq'[r].op = "update" /\ rq'[r].err # "nil"

\* C31: an Update that fails (version mismatch, missing post, or local validation
\* failure) leaves every stored post unchanged in title, content, tags, updated-at
\* and version, and leaves the Version of the caller's Post value unchanged.
C31_FailedUpdateChangesNothing ==
    [][\A r \in Reqs :
        UpdateFails(r) =>
            /\ DOMAIN posts' = DOMAIN posts
            /\ \A i \in DOMAIN posts :
                  /\ posts'[i].title = posts[i].title
                  /\ posts'[i].content = posts[i].content
                  /\ posts'[i].tags = posts[i].tags
                  /\ posts'[i].updated_at = posts[i].updated_at
                  /\ posts'[i].version = posts[i].version
            /\ rq'[r].post.Version = rq[r].post.Version]_vars

\* one Update met a version that had moved on, another did not validate; each
\* holds the version it was loaded with, and the row has the winner's version
C31_Witness ==
    \E r1, r2 \in Reqs :
        /\ rq[r1].pc = "done" /\ rq[r1].op = "update" /\ rq[r1].why = "version"
        /\ rq[r1].post.Version = rq[r1].base
        /\ rq[r1].id \in DOMAIN posts /\ posts[rq[r1].id].version = rq[r1].base + 1
        /\ rq[r2].pc = "done" /\ rq[r2].op = "update" /\ rq[r2].why = "invalid"
        /\ rq[r2].post.Version = rq[r2].base

\* C32: when Posts.Update fails inside updatePostHandler because the post no longer
\* exists or its version changed since the middleware loaded it, the client
\* receives 404 or 409 and not a 500.
C32_StaleUpdateIsNotFoundOrConflict ==
    \A r \in Reqs :
        (rq[r].pc = "done" /\ rq[r].op = "update" /\ rq[r].why \in {"absent", "version"})
        => rq[r].status \in {404, 409}

(* ------------------------ claims on denied calls ------------------------ *)
\* a step of a call of Allow that goes on to return allowed=false: the Get that
\* found the counter at the limit, or the TTL after it
DeniedStep(c) ==
    \/ cl[c].pc = "idle" /\ cl'[c].pc = "ttl"
    \/ cl[c].pc = "ttl" /\ cl'[c].pc = "done" /\ ~cl'[c].allowed

\* C33: an Allow call that returns allowed=false performs no write: no step of it
\* changes the counter or the expiry of the key, so under sequential calls the
\* counter never exceeds limit.
C33_DeniedWritesNothing ==
    /\ [](rlCount <= limit)
    /\ [][\A c \in Callers : DeniedStep(c) => (rlCount' = rlCount /\ rlExp' = rlExp)]_vars

\* a call was denied with the counter at the limit, and the counter and its expiry
\* are those of the window it was denied in
C33_Witness ==
    \E c \in Callers :
        /\ cl[c].pc = "done" /\ ~cl[c].allowed /\ cl[c].k > limit
        /\ rlCount = limit /\ rlExp = winFirst + window

\* C34: whenever Allow returns allowed=false, the retry-after is greater than 0 and
\* at most window, also when the key expires between the counter read and the TTL
\* read and when the TTL read fails.
C34_RetryAfterInWindow ==
    \A c \in Callers :
        (cl[c].pc = "done" /\ ~cl[c].allowed) => (cl[c].retry > 0 /\ cl[c].retry <= window)

(* ----------------------- claims on getUser's errors --------------------- *)
\* getUser with the cache enabled, after Users.Get returned an infrastructure error
C35_FailedClosed(g) ==
    /\ gu[g].err = "failed to get user from cache"
    /\ gu[g].isNil /\ gu[g].user = NoUser
    /\ ~gu[g].missed /\ ~gu[g].read
    /\ AuthTokenMiddleware(gu[g]) = 401

\* getUser with the cache disabled: Redis was not asked and holds no key
C35_CacheUntouched(g) ==
    /\ gu[g].reply = "none" /\ ~gu[g].missed /\ ~gu[g].setErr
    /\ cache = <<>>

\* C35: when the cache is enabled and Users.Get returns an infrastructure error,
\* getUser returns that error without reading the store, and AuthTokenMiddleware
\* rejects the request; when the cache is disabled getUser reads the store only
\* and never reads or writes the cache.
C35_FailsClosed ==
    \A g \in Getters :
        /\ (redisEnabled /\ gu[g].reply = "err") => (gu[g].pc = "done" /\ C35_FailedClosed(g))
        /\ ~redisEnabled => C35_CacheUntouched(g)

\* Redis failed the Get for a user the store has a row of, while another call is
\* being served from the store; the first call is over with the error
C35_Witness ==
    \E g1, g2 \in Getters :
        /\ redisEnabled
        /\ gu[g1].pc = "done" /\ gu[g1].reply = "err" /\ gu[g1].uid \in DOMAIN users
        /\ gu[g1].err # "nil" /\ ~gu[g1].read
        /\ gu[g2].pc = "done" /\ gu[g2].read /\ gu[g2].uid = gu[g1].uid

\* with the cache disabled a user has been read from the store
C35_WitnessDisabled ==
    \E g \in Getters : ~redisEnabled /\ gu[g].pc = "done" /\ gu[g].read /\ cache = <<>>

(* ---------------------- claims on the feed handler ---------------------- *)
\* the query the claim allows to reach the store
C36_Allowed(fq, ntags) ==
    /\ fq.Sort \in {"asc", "desc"}
    /\ 1 <= fq.Limit /\ fq.Limit <= 20
    /\ fq.Offset >= 0
    /\ ntags <= 5
    /\ Len(fq.Search) <= 100

\* C36: GetUserFeed is reached through getUserFeedHandler only with Sort asc or
\* desc, 1 <= Limit <= 20, Offset >= 0, at most 5 tags and a search text of at most
\* 100 characters; every other query is answered 400 before the store is queried,
\* so the Sort text put into the SQL is always one of the two keywords.
C36_OnlyValidatedQueriesReachStore ==
    fh.n > 0 =>
        /\ fh.stored => (fh.parsed /\ C36_Allowed(fh.fq, fh.ntags) /\ fh.orderBy \in {"asc", "desc"})
        /\ (~fh.parsed \/ ~C36_Allowed(fh.fq, fh.ntags)) => (fh.status = 400 /\ ~fh.stored)
        /\ fh.status = 200 => (feed.user = FeedUser /\ feed.fq = fh.fq)

\* a query whose sort is not a keyword was answered 400 and the store was not asked
C36_Witness ==
    /\ fh.n > 0 /\ fh.parsed
    /\ fh.query.sort = "asc; DROP TABLE posts" /\ fh.fq.Sort = fh.query.sort
    /\ fh.query.limit = <<"2", "0">> /\ fh.fq.Limit = 20
    /\ fh.status = 400 /\ ~fh.stored /\ feed = NoFeed

(* --------------------------- claims on Send ----------------------------- *)
\* a 2xx response
C37_Success(reply) == ~reply.err /\ ~reply.nil /\ reply.code >= 200 /\ reply.code <= 299
\* a transient failure as the claim names it: HTTP 429 or 5xx
C37_Transient(reply) ==
    ~reply.err /\ ~reply.nil /\ (reply.code = 429 \/ (reply.code >= 500 /\ reply.code <= 599))
\* the replies after which Send has gone on, or is about to go on, to another attempt
C37_Retried ==
    {mail.replies[i] : i \in {j \in DOMAIN mail.replies : j < Len(mail.replies) \/ mail.pc # "done"}}

\* what C37 says of the attempts, the result and the sleeps, but for the replies
\* a retry may follow
C37_AttemptsAndResult ==
    /\ Len(mail.replies) <= 3
    /\ \A reply \in C37_Retried : ~C37_Success(reply)
    /\ (mail.pc = "done" /\ mail.replies # <<>>) =>
          LET last == mail.replies[Len(mail.replies)]
          IN  /\ C37_Success(last) => (mail.status = last.code /\ mail.err = "nil")
              /\ ~C37_Success(last) => (mail.status = 0 - 1 /\ mail.err # "nil")
              /\ Len(mail.slept) = Len(mail.replies) - 1
    /\ Len(mail.slept) <= Len(mail.replies)

C38_ReturnsAfterShutdown ==
    /\ srv.elapsed <= shutdownTimeout
    /\ srv.logged <=> srv.ret = "nil"
    /\ srv.ret = "nil" =>
          /\ srv.main = "returned"
          /\ srv.sig \in Signals
          /\ srv.inShutdown /\ srv.shutdownErr \in {"nil", "deadline exceeded"}
          /\ srv.done
    /\ srv.ret = "err" => srv.server = "failed"

\* a server that fails makes runWithGracefulShutdown return the error in the same
\* step of main, whatever the handler is doing
C38_FailureReturnsAtOnce ==
    (srv'.server = "failed" /\ srv.server # "failed") => (srv'.main = "returned" /\ srv'.ret = "err")

C38_WitnessFailed ==
    /\ srv.ret = "err" /\ srv.server = "failed" /\ srv.quit = NoSignal /\ srv.sig = NoSignal
    /\ ~srv.inShutdown
====
